---------------------------- MODULE Spec2Model ----------------------------
(***************************************************************************)
(* A model of the real-time landmark stream processor of                   *)
(* aerobeat-input-mediapipe-python: the One-Euro filter and the landmark   *)
(* filter bank (one_euro_filter.py), the predictive ROI tracker            *)
(* (roi_tracker.py) and the batching UDP sender (main.py).                 *)
(*                                                                         *)
(* Python floats are modelled as fixed-point integers: the integer n       *)
(* stands for the real n / Scale, and every multiplication and division    *)
(* rounds to the nearest representable value, as a float operation does.   *)
(* Timestamps are seconds, so one unit of time is 1 / Scale s.             *)
(* Optional values (None or a float) are sequences of length 0 or 1.       *)
(***************************************************************************)
EXTENDS Integers, Sequences, FiniteSets, TLC

VARIABLES
    oef,        \* a OneEuroFilter instance: its fields
    oef_pre,    \* the fields of oef when its last operation began
    oef_call,   \* the last operation on oef: its name, the one before it, arguments, result
    oef_calls,  \* number of filter() calls made on oef so far
    bank,       \* a LandmarkFilterBank instance: its fields
    bank_pre,   \* the fields of bank when its last operation began
    bank_call,  \* the last operation on bank: its name, arguments, result and loop trace
    bank_calls, \* number of filter_landmarks() calls made on bank so far
    tracker,      \* a PredictiveROITracker instance: its fields
    tracker_pre,  \* the fields of tracker when its last update() began
    tracker_call, \* the last update(): its landmarks, the branch taken, its locals
    tracker_log,  \* the landmark lists passed to update() so far, oldest first
    original_shape, \* the (height, width) of the frames, passed to every update()
    sender,       \* a UDPSender instance: its fields
    sender_pre,   \* the fields of sender when its last call began
    sender_call,  \* the last call on sender: its name, arguments, sendto() calls
    udp_log,      \* the frames passed to send() so far with their `binary`, oldest first
    net,          \* the sendto() calls made on the socket so far, oldest first
    udp_ops,      \* number of calls made on sender so far
    latency_tracker,  \* a LatencyTracker instance: its fields
    latency_call,     \* the last record_frame(): its arguments and what it logged
    latency_calls,    \* number of record_frame() calls made so far
    latency_load,     \* which series of timings the tracker is fed
    argv,         \* the command line of the processing program
    prog,         \* the processing program: its position, globals and main()'s locals
    prog_call,    \* the last step of the program: its inputs and the sendto() it made
    prog_net,     \* the sendto() calls the program made on its socket, oldest first
    prog_iters,   \* number of loop iterations begun so far
    ser_in,       \* the arguments of a serialize_single_landmarks() call
    ser_out,      \* None before the call, then the bytes it returned
    preset_call,  \* the last direct get_preset_params() call: its name and outcome
    frame_capture,  \* a FrameCapture instance: its fields, its lock and its device
    capture_thread, \* the thread running _capture_loop: its position and locals
    main_thread,    \* the thread that constructs, reads and stops frame_capture
    pixels,         \* the image held by every frame buffer allocated so far
    capture_log,    \* the images stored in the slot and the frames get_frame returned
    crop_call,      \* the last crop_frame() or adjust_landmarks() call on tracker
    noise_run       \* a test signal run through oef: the raw and the filtered values

oefVars == <<oef, oef_pre, oef_call, oef_calls>>

bankVars == <<bank, bank_pre, bank_call, bank_calls>>

roiVars == <<tracker, tracker_pre, tracker_call, tracker_log, original_shape>>

udpVars == <<sender, sender_pre, sender_call, udp_log, net, udp_ops>>

latVars == <<latency_tracker, latency_call, latency_calls, latency_load>>

progVars == <<argv, prog, prog_call, prog_net, prog_iters>>

serVars == <<ser_in, ser_out>>

presetVars == <<preset_call>>

capVars == <<frame_capture, capture_thread, main_thread, pixels, capture_log>>

cropVars == <<crop_call>>

noiseVars == <<noise_run>>

vars == <<oef, oef_pre, oef_call, oef_calls, bank, bank_pre, bank_call, bank_calls,
          tracker, tracker_pre, tracker_call, tracker_log, original_shape,
          sender, sender_pre, sender_call, udp_log, net, udp_ops,
          latency_tracker, latency_call, latency_calls, latency_load,
          argv, prog, prog_call, prog_net, prog_iters, ser_in, ser_out,
          preset_call, frame_capture, capture_thread, main_thread, pixels,
          capture_log, crop_call, noise_run>>

\* What the operations of one component leave alone: the other components.
notOef == <<bankVars, roiVars, udpVars, latVars,
             progVars, serVars, presetVars, capVars, cropVars, noiseVars>>
notBank == <<oefVars, roiVars, udpVars, latVars,
              progVars, serVars, presetVars, capVars, cropVars, noiseVars>>
notRoi == <<oefVars, bankVars, udpVars, latVars,
             progVars, serVars, presetVars, capVars, cropVars, noiseVars>>
notUdp == <<oefVars, bankVars, roiVars, latVars,
             progVars, serVars, presetVars, capVars, cropVars, noiseVars>>
notLat == <<oefVars, bankVars, roiVars, udpVars,
             progVars, serVars, presetVars, capVars, cropVars, noiseVars>>
notProg == <<oefVars, bankVars, roiVars, udpVars,
              latVars, serVars, presetVars, capVars, cropVars, noiseVars>>
notSer == <<oefVars, bankVars, roiVars, udpVars,
             latVars, progVars, presetVars, capVars, cropVars, noiseVars>>
notPreset == <<oefVars, bankVars, roiVars, udpVars,
                latVars, progVars, serVars, capVars, cropVars, noiseVars>>
notCap == <<oefVars, bankVars, roiVars, udpVars,
             latVars, progVars, serVars, presetVars, cropVars, noiseVars>>
notCrop == <<oefVars, bankVars, udpVars, latVars,
              progVars, serVars, presetVars, capVars, noiseVars>>
notNoise == <<bankVars, roiVars, udpVars, latVars, progVars,
               serVars, presetVars, capVars, cropVars>>

--------------------------------------------------------------------------
(* Fixed-point arithmetic standing for Python's float arithmetic.          *)

\* The resolution of a modelled float: n stands for n / Scale.
Scale == 1000

\* 1.0
One == Scale

Abs(a) == IF a < 0 THEN -a ELSE a

\* a / b rounded to the nearest integer (halves away from zero), b > 0.
RoundDiv(a, b) ==
    IF a >= 0 THEN (2 * a + b) \div (2 * b)
              ELSE -((2 * (-a) + b) \div (2 * b))

\* The float product a * b.
FMul(a, b) == RoundDiv(a * b, Scale)

\* The float quotient a / b, for b > 0.
FDiv(a, b) == RoundDiv(a * Scale, b)

\* 2.0 * np.pi
TwoPi == RoundDiv(2 * 355 * Scale, 113)

\* 1.0 / 60.0, the frame interval substituted for an invalid time delta.
DefaultDt == RoundDiv(One, 60)

\* None and the values that are not None.
None == <<>>
Some(v) == <<v>>
Get(o) == o[1]

--------------------------------------------------------------------------
(* OneEuroFilter (one_euro_filter.py).                                     *)

\* OneEuroFilter.__init__: the fields of a new filter.
NewFilter(min_cutoff, beta, d_cutoff) ==
    [min_cutoff |-> min_cutoff, beta |-> beta, d_cutoff |-> d_cutoff,
     x_prev |-> None, dx_prev |-> None, t_prev |-> None]

\* OneEuroFilter._alpha_from_cutoff
alpha_from_cutoff_without_smoothing(cutoff, dt) == One
alpha_from_cutoff(cutoff, dt) ==
    IF dt <= 0 THEN One
    ELSE LET tau == FDiv(One, FMul(TwoPi, cutoff))
         IN  FDiv(One, One + FDiv(tau, dt))

\* The time delta filter() uses: t - t_prev, or 1/60 s when that is not positive.
filter_dt_backwards(f, t) ==
    LET dt == t - Get(f.t_prev)
    IN  IF dt = 0 THEN DefaultDt ELSE Abs(dt)
filter_dt(f, t) ==
    LET dt == t - Get(f.t_prev)
    IN  IF dt <= 0 THEN DefaultDt ELSE dt

\* OneEuroFilter.filter(x, t): [ret |-> the value returned, st |-> the fields after].
filter_without_history(f, x, t) ==
    IF f.x_prev = None
    THEN [ret |-> x,
          st  |-> [f EXCEPT !.x_prev = Some(x), !.dx_prev = Some(0), !.t_prev = Some(t)]]
    ELSE LET dt          == filter_dt(f, t)
             dx          == FDiv(x - Get(f.x_prev), dt)
             alpha_d     == alpha_from_cutoff(f.d_cutoff, dt)
             dx_filtered == FMul(alpha_d, dx) + FMul(One - alpha_d, Get(f.dx_prev))
             cutoff      == f.min_cutoff + FMul(f.beta, Abs(dx_filtered))
             alpha       == alpha_from_cutoff(cutoff, dt)
             x_filtered  == FMul(alpha, x)
         IN  [ret |-> x_filtered,
              st  |-> [f EXCEPT !.x_prev = Some(x_filtered),
                                !.dx_prev = Some(dx_filtered),
                                !.t_prev = Some(t)]]
filter(f, x, t) ==
    IF f.x_prev = None
    THEN [ret |-> x,
          st  |-> [f EXCEPT !.x_prev = Some(x), !.dx_prev = Some(0), !.t_prev = Some(t)]]
    ELSE LET dt          == filter_dt(f, t)
             dx          == FDiv(x - Get(f.x_prev), dt)
             alpha_d     == alpha_from_cutoff(f.d_cutoff, dt)
             dx_filtered == FMul(alpha_d, dx) + FMul(One - alpha_d, Get(f.dx_prev))
             cutoff      == f.min_cutoff + FMul(f.beta, Abs(dx_filtered))
             alpha       == alpha_from_cutoff(cutoff, dt)
             x_filtered  == FMul(alpha, x) + FMul(One - alpha, Get(f.x_prev))
         IN  [ret |-> x_filtered,
              st  |-> [f EXCEPT !.x_prev = Some(x_filtered),
                                !.dx_prev = Some(dx_filtered),
                                !.t_prev = Some(t)]]

\* A reset() that leaves the state fields as they are.
reset_keeps_state(f) == f

\* OneEuroFilter.reset(): the fields after.
reset(f) == [f EXCEPT !.x_prev = None, !.dx_prev = None, !.t_prev = None]

--------------------------------------------------------------------------
(* LandmarkFilterBank (one_euro_filter.py).                                *)

\* LandmarkFilterBank.VISIBILITY_THRESHOLD = 0.5
VISIBILITY_THRESHOLD == 500

\* The three OneEuroFilters (x, y, z) created for one landmark.
NewLandmarkFilters(min_cutoff, beta, d_cutoff) ==
    [c \in 1..3 |-> NewFilter(min_cutoff, beta, d_cutoff)]

\* LandmarkFilterBank.__init__: the fields of a new bank.  The Python lists
\* filters and prev_visibility are indexed 0 .. num_landmarks - 1.
NewBank(num_landmarks, min_cutoff, beta, d_cutoff) ==
    [num_landmarks   |-> num_landmarks,
     min_cutoff      |-> min_cutoff,
     beta            |-> beta,
     d_cutoff        |-> d_cutoff,
     filters         |-> [i \in 0..(num_landmarks - 1) |->
                             NewLandmarkFilters(min_cutoff, beta, d_cutoff)],
     prev_visibility |-> [i \in 0..(num_landmarks - 1) |-> 0]]

\* Python's list indexing: a negative index counts from the end of the list.
PyIndexOk(i, n) == -n <= i /\ i < n
PyIndex(i, n) == IF i < 0 THEN i + n ELSE i

\* lm.get('v', 1.0)
Visibility(lm) == IF "v" \in DOMAIN lm THEN lm.v ELSE One

\* A filter_landmarks that never resets the filters of a landmark.
ResetIfChanged_never(fs, prev_visible, curr_visible) == fs

\* The reset loop of filter_landmarks, run when the visibility state changed.
ResetIfChanged(fs, prev_visible, curr_visible) ==
    IF prev_visible # curr_visible THEN [c \in 1..3 |-> reset(fs[c])] ELSE fs

\* A filter_landmarks that runs the filters on invisible landmarks too.
EmitCoords_always(fs, lm, curr_visible, timestamp) ==
    LET rx == filter(fs[1], lm.x, timestamp)
        ry == filter(fs[2], lm.y, timestamp)
        rz == filter(fs[3], lm.z, timestamp)
    IN  [x |-> rx.ret, y |-> ry.ret, z |-> rz.ret,
         fs |-> [c \in 1..3 |-> IF c = 1 THEN rx.st ELSE IF c = 2 THEN ry.st ELSE rz.st]]

\* The coordinates emitted for one landmark and its filters afterwards:
\* the filters run only when the landmark is visible.
EmitCoords(fs, lm, curr_visible, timestamp) ==
    IF curr_visible
    THEN LET rx == filter(fs[1], lm.x, timestamp)
             ry == filter(fs[2], lm.y, timestamp)
             rz == filter(fs[3], lm.z, timestamp)
         IN  [x |-> rx.ret, y |-> ry.ret, z |-> rz.ret,
              fs |-> [c \in 1..3 |-> IF c = 1 THEN rx.st ELSE IF c = 2 THEN ry.st ELSE rz.st]]
    ELSE [x |-> lm.x, y |-> lm.y, z |-> lm.z, fs |-> fs]

\* One iteration of the loop of filter_landmarks, for landmark lm:
\*   kind "skip"  : the id is beyond the filter count, nothing happens;
\*   kind "raise" : indexing prev_visibility raises IndexError;
\*   kind "done"  : the landmark is processed and an entry is emitted.
\* The record also keeps the loop's local variables and the landmark's
\* filters before and after the iteration.
FilterOne_forgetting_visibility(b, lm, timestamp) ==
    IF lm.id >= b.num_landmarks
    THEN [kind |-> "skip", lm |-> lm, bank |-> b]
    ELSE IF ~PyIndexOk(lm.id, b.num_landmarks)
    THEN [kind |-> "raise", lm |-> lm, bank |-> b]
    ELSE LET slot         == PyIndex(lm.id, b.num_landmarks)
             visibility   == Visibility(lm)
             prev_visible == b.prev_visibility[slot] >= VISIBILITY_THRESHOLD
             curr_visible == visibility >= VISIBILITY_THRESHOLD
             fs0          == b.filters[slot]
             fs1          == ResetIfChanged(fs0, prev_visible, curr_visible)
             e            == EmitCoords(fs1, lm, curr_visible, timestamp)
         IN  [kind         |-> "done",
              lm           |-> lm,
              slot         |-> slot,
              prev_visible |-> prev_visible,
              curr_visible |-> curr_visible,
              before       |-> fs0,
              after        |-> e.fs,
              out          |-> [id |-> lm.id, x |-> e.x, y |-> e.y, z |-> e.z,
                                v |-> visibility],
              bank         |-> [b EXCEPT !.filters[slot] = e.fs]]

FilterOne(b, lm, timestamp) ==
    IF lm.id >= b.num_landmarks
    THEN [kind |-> "skip", lm |-> lm, bank |-> b]
    ELSE IF ~PyIndexOk(lm.id, b.num_landmarks)
    THEN [kind |-> "raise", lm |-> lm, bank |-> b]
    ELSE LET slot         == PyIndex(lm.id, b.num_landmarks)
             visibility   == Visibility(lm)
             prev_visible == b.prev_visibility[slot] >= VISIBILITY_THRESHOLD
             curr_visible == visibility >= VISIBILITY_THRESHOLD
             fs0          == b.filters[slot]
             fs1          == ResetIfChanged(fs0, prev_visible, curr_visible)
             e            == EmitCoords(fs1, lm, curr_visible, timestamp)
         IN  [kind         |-> "done",
              lm           |-> lm,
              slot         |-> slot,
              prev_visible |-> prev_visible,
              curr_visible |-> curr_visible,
              before       |-> fs0,
              after        |-> e.fs,
              out          |-> [id |-> lm.id, x |-> e.x, y |-> e.y, z |-> e.z,
                                v |-> visibility],
              bank         |-> [b EXCEPT !.filters[slot] = e.fs,
                                         !.prev_visibility[slot] = visibility]]

\* What one iteration leaves in the trace: everything but the bank.
TraceEntry(r) == [f \in DOMAIN r \ {"bank"} |-> r[f]]

\* The loop of filter_landmarks from landmark i on: the bank afterwards, the
\* entries emitted so far, the trace of the iterations and whether it raised.
\* (The iteration's result r is bound through a singleton set so that it is
\* computed once per iteration.)
RECURSIVE FilterLoop(_, _, _, _, _, _)
FilterLoop(b, landmarks, timestamp, i, emitted, trace) ==
    IF i > Len(landmarks)
    THEN [bank |-> b, ret |-> Some(emitted), trace |-> trace]
    ELSE CHOOSE res \in
            { IF r.kind = "raise"
              THEN [bank |-> b, ret |-> None, trace |-> Append(trace, TraceEntry(r))]
              ELSE FilterLoop(r.bank, landmarks, timestamp, i + 1,
                              IF r.kind = "done" THEN Append(emitted, r.out) ELSE emitted,
                              Append(trace, TraceEntry(r)))
              : r \in {FilterOne(b, landmarks[i], timestamp)} } : TRUE

\* LandmarkFilterBank.filter_landmarks(landmarks, timestamp):
\* ret is Some(list of filtered landmarks), or None when IndexError was raised.
filter_landmarks(b, landmarks, timestamp) ==
    FilterLoop(b, landmarks, timestamp, 1, <<>>, <<>>)

\* LandmarkFilterBank.reset_all()
reset_all_keeps_visibility(b) ==
    [b EXCEPT !.filters = [i \in DOMAIN b.filters |-> [c \in 1..3 |-> reset(b.filters[i][c])]]]
reset_all(b) ==
    [b EXCEPT !.filters = [i \in DOMAIN b.filters |-> [c \in 1..3 |-> reset(b.filters[i][c])]],
              !.prev_visibility = [i \in 0..(b.num_landmarks - 1) |-> 0]]

\* LandmarkFilterBank.reset_landmark(landmark_id)
reset_landmark_any_index(b, landmark_id) ==
    IF PyIndexOk(landmark_id, b.num_landmarks)
    THEN LET slot == PyIndex(landmark_id, b.num_landmarks)
         IN  [b EXCEPT !.filters[slot] = [c \in 1..3 |-> reset(b.filters[slot][c])],
                       !.prev_visibility[slot] = 0]
    ELSE b
reset_landmark(b, landmark_id) ==
    IF 0 <= landmark_id /\ landmark_id < b.num_landmarks
    THEN [b EXCEPT !.filters[landmark_id] = [c \in 1..3 |-> reset(b.filters[landmark_id][c])],
                   !.prev_visibility[landmark_id] = 0]
    ELSE b

\* LandmarkFilterBank.update_params(min_cutoff, beta, d_cutoff): each
\* argument is None or a new value.
update_params_keeping_history(b, min_cutoff, beta, d_cutoff) ==
    IF min_cutoff = None /\ beta = None /\ d_cutoff = None THEN b
    ELSE LET mc == IF min_cutoff # None THEN Get(min_cutoff) ELSE b.min_cutoff
             be == IF beta # None THEN Get(beta) ELSE b.beta
             dc == IF d_cutoff # None THEN Get(d_cutoff) ELSE b.d_cutoff
         IN  [b EXCEPT !.min_cutoff = mc, !.beta = be, !.d_cutoff = dc,
                       !.filters = [i \in 0..(b.num_landmarks - 1) |->
                                       NewLandmarkFilters(mc, be, dc)],
                       !.prev_visibility = [i \in 0..(b.num_landmarks - 1) |-> 0]]
update_params(b, min_cutoff, beta, d_cutoff) ==
    LET mc == IF min_cutoff # None THEN Get(min_cutoff) ELSE b.min_cutoff
        be == IF beta # None THEN Get(beta) ELSE b.beta
        dc == IF d_cutoff # None THEN Get(d_cutoff) ELSE b.d_cutoff
    IN  [b EXCEPT !.min_cutoff = mc, !.beta = be, !.d_cutoff = dc,
                  !.filters = [i \in 0..(b.num_landmarks - 1) |->
                                  NewLandmarkFilters(mc, be, dc)],
                  !.prev_visibility = [i \in 0..(b.num_landmarks - 1) |-> 0]]

--------------------------------------------------------------------------
(* A single OneEuroFilter driven by arbitrary filter() and reset() calls.  *)

\* Bound on the number of filter() calls on the single filter.
MaxFilterCalls == 4

\* Raw samples and timestamps passed to filter(); timestamps may repeat or go back.
Samples == {0, 500, 1000}
Timestamps == {0, 16, 33, 100}

\* Parameter sets a filter is constructed with: (min_cutoff, beta, d_cutoff).
\* The first is the constructor's default, the others are the presets
\* "balanced" and "smooth".
ParamSets == { <<One, 0, One>>, <<One, 5, One>>, <<500, 2, One>> }

NoCall == [op |-> "new", after |-> "new", x |-> 0, t |-> 0, ret |-> None]

OefStart ==
    /\ \E p \in ParamSets : oef = NewFilter(p[1], p[2], p[3])
    /\ oef_pre = oef
    /\ oef_call = NoCall
    /\ oef_calls = 0

\* The filter when another component is the one exercised.
OefIdle ==
    /\ oef = NewFilter(One, 0, One)
    /\ oef_pre = oef
    /\ oef_call = NoCall
    /\ oef_calls = 0

OefFilter ==
    /\ oef_calls < MaxFilterCalls
    /\ \E x \in Samples, t \in Timestamps :
          LET r == filter(oef, x, t)
          IN  /\ oef' = r.st
              /\ oef_pre' = oef
              /\ oef_call' = [op |-> "filter", after |-> oef_call.op, x |-> x, t |-> t,
                               ret |-> Some(r.ret)]
              /\ oef_calls' = oef_calls + 1
    /\ UNCHANGED notOef

OefReset ==
    /\ oef' = reset(oef)
    /\ oef_pre' = oef
    /\ oef_call' = [op |-> "reset", after |-> oef_call.op, x |-> 0, t |-> 0, ret |-> None]
    /\ UNCHANGED <<oef_calls, notOef>>

OefNext == OefFilter \/ OefReset

\* The filter fed one value again and again: after construction and after
\* every reset() the value is chosen, then it is repeated.
MaxConstantCalls == 5

ConstantSamples == {-200, 0, 300, 500, 1000}

ConstantFilter ==
    /\ oef_calls < MaxConstantCalls
    /\ \E x \in ConstantSamples, t \in Timestamps :
          /\ oef_call.op = "filter" => x = oef_call.x
          /\ LET r == filter(oef, x, t)
             IN  /\ oef' = r.st
                 /\ oef_pre' = oef
                 /\ oef_call' = [op |-> "filter", after |-> oef_call.op, x |-> x,
                                  t |-> t, ret |-> Some(r.ret)]
                 /\ oef_calls' = oef_calls + 1
    /\ UNCHANGED notOef

ConstantNext == ConstantFilter \/ OefReset

--------------------------------------------------------------------------
(* A LandmarkFilterBank driven by arbitrary calls of its four methods.     *)

\* num_landmarks of the modelled bank.
BankSize == 2

\* Bound on the work done on the bank: every landmark passed to
\* filter_landmarks counts one, and so does every other call.
MaxBankWork == 3

\* Bound on the number of landmarks passed in one call.
MaxLandmarks == 2

\* Landmark ids passed in: in range, beyond the filter count, negative ids
\* that Python's indexing accepts and one it rejects.
LandmarkIds == {-(BankSize + 1), -1} \cup (0..BankSize)

\* Visibilities passed in (below and at the threshold); "missing" is a
\* landmark dict without the 'v' key.
Visibilities == {300, 500}
VisibilityOptions == {Some(v) : v \in Visibilities} \cup {None}

\* The frame a call is made with when n units of work were done before it:
\* the timestamp advances by 16 ms per unit and the raw (x, y, z) the
\* detector reports changes pose every second unit.
FrameAt(n) ==
    IF (n \div 2) % 2 = 0 THEN [timestamp |-> 16 * n, x |-> 500, y |-> 400, z |-> 0]
                          ELSE [timestamp |-> 16 * n, x |-> 700, y |-> 600, z |-> -200]

\* A landmark dict with or without the 'v' key.
Landmark(id, fr, v) ==
    IF v = None THEN [id |-> id, x |-> fr.x, y |-> fr.y, z |-> fr.z]
    ELSE [id |-> id, x |-> fr.x, y |-> fr.y, z |-> fr.z, v |-> Get(v)]

\* The landmark lists of at most n landmarks taken from frame fr.
LandmarkLists(fr, n) ==
    UNION { { [i \in 1..k |-> Landmark(e[i][1], fr, e[i][2])] :
                e \in [1..k -> LandmarkIds \X VisibilityOptions] } : k \in 0..n }

\* Arguments of update_params: None or a new value for each parameter.
ParamUpdates == { <<None, None, None>>, <<Some(2000), None, None>>,
                  <<None, Some(10), Some(500)>> }

BankStart ==
    /\ bank = NewBank(BankSize, One, 5, One)
    /\ bank_pre = bank
    /\ bank_call = [op |-> "new"]
    /\ bank_calls = 0

\* The bank when another component is the one exercised.
BankIdle ==
    /\ bank = NewBank(BankSize, One, 0, One)
    /\ bank_pre = bank
    /\ bank_call = [op |-> "new"]
    /\ bank_calls = 0

Cost(landmarks) == IF Len(landmarks) = 0 THEN 1 ELSE Len(landmarks)

Min(a, b) == IF a < b THEN a ELSE b

BankFilterLandmarks ==
    /\ bank_calls < MaxBankWork
    /\ \E landmarks \in LandmarkLists(FrameAt(bank_calls),
                                       Min(MaxLandmarks, MaxBankWork - bank_calls)) :
          LET timestamp == FrameAt(bank_calls).timestamp
              r == filter_landmarks(bank, landmarks, timestamp)
          IN  /\ bank' = r.bank
              /\ bank_pre' = bank
              /\ bank_call' = [op |-> "filter_landmarks", landmarks |-> landmarks,
                               timestamp |-> timestamp, ret |-> r.ret,
                               trace |-> r.trace]
              /\ bank_calls' = bank_calls + Cost(landmarks)
    /\ UNCHANGED notBank

BankResetAll ==
    /\ bank_calls < MaxBankWork
    /\ bank' = reset_all(bank)
    /\ bank_pre' = bank
    /\ bank_call' = [op |-> "reset_all"]
    /\ bank_calls' = bank_calls + 1
    /\ UNCHANGED notBank

BankResetLandmark ==
    /\ bank_calls < MaxBankWork
    /\ \E id \in LandmarkIds :
          /\ bank' = reset_landmark(bank, id)
          /\ bank_call' = [op |-> "reset_landmark", landmark_id |-> id]
    /\ bank_pre' = bank
    /\ bank_calls' = bank_calls + 1
    /\ UNCHANGED notBank

BankUpdateParams ==
    /\ bank_calls < MaxBankWork
    /\ \E u \in ParamUpdates :
          /\ bank' = update_params(bank, u[1], u[2], u[3])
          /\ bank_call' = [op |-> "update_params", min_cutoff |-> u[1], beta |-> u[2],
                           d_cutoff |-> u[3]]
    /\ bank_pre' = bank
    /\ bank_calls' = bank_calls + 1
    /\ UNCHANGED notBank

BankNext == BankFilterLandmarks \/ BankResetAll \/ BankResetLandmark \/ BankUpdateParams

--------------------------------------------------------------------------
(* PredictiveROITracker (roi_tracker.py).  Pixel positions and velocities  *)
(* are floats: the integer n stands for n / Scale pixels.  A frame shape   *)
(* is <<height, width>>, an ROI is <<x, y, w, h>> in whole pixels.         *)

Max(a, b) == IF a >= b THEN a ELSE b

\* int(v): the float v cut to a whole number, towards zero.
PyInt(v) == IF v >= 0 THEN v \div Scale ELSE -((-v) \div Scale)

\* float(n) for a whole number n.
Float(n) == n * Scale

RECURSIVE Sum(_)
Sum(s) == IF s = <<>> THEN 0 ELSE Head(s) + Sum(Tail(s))

\* np.mean of a non-empty list of floats.
Mean(s) == RoundDiv(Sum(s), Len(s))

\* deque.append on a deque(maxlen = maxlen): the oldest entry leaves a full deque.
DequeAppend_dropping_newest(q, e, maxlen) ==
    IF Len(q) >= maxlen THEN q ELSE Append(q, e)
DequeAppend(q, e, maxlen) ==
    IF maxlen = 0 THEN q
    ELSE IF Len(q) >= maxlen THEN Append(Tail(q), e) ELSE Append(q, e)

Column(s, c) == [i \in 1..Len(s) |-> s[i][c]]

NewTracker(target_size, padding, velocity_window) ==
    [target_size |-> target_size, padding |-> padding,
     velocity_window |-> velocity_window, expand_threshold |-> 700,
     roi |-> None, positions |-> <<>>, velocities |-> <<>>,
     lost_frames |-> 0, max_lost |-> 3]

\* The centroid of the landmarks in pixels.
Centroid(landmarks, frame_shape) ==
    << Mean([i \in 1..Len(landmarks) |-> landmarks[i].x * frame_shape[2]]),
       Mean([i \in 1..Len(landmarks) |-> landmarks[i].y * frame_shape[1]]) >>

\* int(target_size * aspect) and target_size: the size of the ROI around a
\* tracked subject.  The product is taken at the float's full precision; its
\* whole part is that of the exact quotient for the frame shapes used here.
RoiSize(t, frame_shape) ==
    << (t.target_size * frame_shape[2]) \div frame_shape[1], t.target_size >>

\* int(target_size * aspect * 1.5) and int(target_size * 1.5): the size of
\* the ROI that searches for a lost subject.
SearchRoiSize_not_enlarged(t, frame_shape) ==
    << (t.target_size * frame_shape[2]) \div frame_shape[1], t.target_size >>
SearchRoiSize(t, frame_shape) ==
    << (t.target_size * frame_shape[2] * 3) \div (frame_shape[1] * 2),
       (t.target_size * 3) \div 2 >>

\* The ROI of the given size around the predicted position: x1 and y1 are
\* kept from falling below 0, x2 and y2 from exceeding the frame.
RoiAround(predicted, size, frame_shape) ==
    LET x1 == Max(0, PyInt(predicted[1] - RoundDiv(Float(size[1]), 2)))
        y1 == Max(0, PyInt(predicted[2] - RoundDiv(Float(size[2]), 2)))
        x2 == Min(frame_shape[2], x1 + size[1])
        y2 == Min(frame_shape[1], y1 + size[2])
    IN  <<x1, y1, x2 - x1, y2 - y1>>

\* The lost-tracking prediction: last position plus average velocity times
\* the number of lost frames.
Extrapolate_one_step(last, avg, lost_frames) ==
    <<last[1] + avg[1], last[2] + avg[2]>>
Extrapolate(last, avg, lost_frames) ==
    <<last[1] + avg[1] * lost_frames, last[2] + avg[2] * lost_frames>>

\* The guard of the lost branch: predict, or else give up.
KeepsPredicting_without_limit(t, lost_frames) ==
    t.positions # <<>> /\ t.velocities # <<>>
KeepsPredicting(t, lost_frames) ==
    lost_frames <= t.max_lost /\ t.positions # <<>> /\ t.velocities # <<>>

\* update() with a non-empty landmark list.
UpdateTracked_from_first_velocity(t, landmarks, frame_shape) ==
    LET center     == Centroid(landmarks, frame_shape)
        last       == t.positions[Len(t.positions)]
        velocities == IF t.positions # <<>>
                      THEN DequeAppend(t.velocities,
                                       <<center[1] - last[1], center[2] - last[2]>>,
                                       t.velocity_window)
                      ELSE t.velocities
        positions  == DequeAppend(t.positions, center, t.velocity_window)
        predicted  == IF Len(velocities) >= 1
                      THEN <<center[1] + Mean(Column(velocities, 1)),
                             center[2] + Mean(Column(velocities, 2))>>
                      ELSE center
    IN  [branch |-> "tracked", center |-> Some(center), predicted |-> Some(predicted),
         tracker |-> [t EXCEPT !.velocities = velocities, !.positions = positions,
                               !.lost_frames = 0,
                               !.roi = Some(RoiAround(predicted, RoiSize(t, frame_shape),
                                                      frame_shape))]]
UpdateTracked(t, landmarks, frame_shape) ==
    LET center     == Centroid(landmarks, frame_shape)
        last       == t.positions[Len(t.positions)]
        velocities == IF t.positions # <<>>
                      THEN DequeAppend(t.velocities,
                                       <<center[1] - last[1], center[2] - last[2]>>,
                                       t.velocity_window)
                      ELSE t.velocities
        positions  == DequeAppend(t.positions, center, t.velocity_window)
        predicted  == IF Len(velocities) >= 2
                      THEN <<center[1] + Mean(Column(velocities, 1)),
                             center[2] + Mean(Column(velocities, 2))>>
                      ELSE center
    IN  [branch |-> "tracked", center |-> Some(center), predicted |-> Some(predicted),
         tracker |-> [t EXCEPT !.velocities = velocities, !.positions = positions,
                               !.lost_frames = 0,
                               !.roi = Some(RoiAround(predicted, RoiSize(t, frame_shape),
                                                      frame_shape))]]

\* update() with an empty landmark list.
UpdateLost_restarting_count(t, frame_shape) ==
    LET lost_frames == t.lost_frames + 1
    IN  IF KeepsPredicting(t, lost_frames)
        THEN LET avg == <<Mean(Column(t.velocities, 1)), Mean(Column(t.velocities, 2))>>
                 predicted == Extrapolate(t.positions[Len(t.positions)], avg, lost_frames)
             IN  [branch |-> "predict", center |-> None, predicted |-> Some(predicted),
                  tracker |-> [t EXCEPT !.lost_frames = lost_frames,
                                        !.roi = Some(RoiAround(predicted,
                                                               SearchRoiSize(t, frame_shape),
                                                               frame_shape))]]
        ELSE [branch |-> "give_up", center |-> None, predicted |-> None,
              tracker |-> [t EXCEPT !.lost_frames = 0,
                                    !.roi = Some(<<0, 0, frame_shape[2], frame_shape[1]>>),
                                    !.positions = <<>>, !.velocities = <<>>]]
UpdateLost(t, frame_shape) ==
    LET lost_frames == t.lost_frames + 1
    IN  IF KeepsPredicting(t, lost_frames)
        THEN LET avg == <<Mean(Column(t.velocities, 1)), Mean(Column(t.velocities, 2))>>
                 predicted == Extrapolate(t.positions[Len(t.positions)], avg, lost_frames)
             IN  [branch |-> "predict", center |-> None, predicted |-> Some(predicted),
                  tracker |-> [t EXCEPT !.lost_frames = lost_frames,
                                        !.roi = Some(RoiAround(predicted,
                                                               SearchRoiSize(t, frame_shape),
                                                               frame_shape))]]
        ELSE [branch |-> "give_up", center |-> None, predicted |-> None,
              tracker |-> [t EXCEPT !.lost_frames = lost_frames,
                                    !.roi = Some(<<0, 0, frame_shape[2], frame_shape[1]>>),
                                    !.positions = <<>>, !.velocities = <<>>]]

update(t, landmarks, frame_shape) ==
    IF landmarks # <<>> THEN UpdateTracked(t, landmarks, frame_shape)
                        ELSE UpdateLost(t, frame_shape)

--------------------------------------------------------------------------
(* The tracker driven by a frame loop: one update() per frame, with the    *)
(* landmarks the detector found in it (none when the subject is lost).     *)

\* Number of update() calls in a behaviour.
MaxRoiUpdates == 7

\* (height, width) of the captured frames; the capture keeps one shape.
FrameShapes == {<<480, 640>>, <<720, 1280>>}

VelocityWindows == {2, 5}

\* What a detector reports for a frame: nothing, a subject at the left, one
\* at the right edge, or two landmarks of a subject a step from the first.
Poses ==
    { <<>>,
      <<[x |-> 300, y |-> 500]>>,
      <<[x |-> 1000, y |-> 500]>>,
      <<[x |-> 300, y |-> 400], [x |-> 400, y |-> 500]>> }

RoiStart ==
    /\ original_shape \in FrameShapes
    /\ \E w \in VelocityWindows : tracker = NewTracker(320, 50, w)
    /\ tracker_pre = tracker
    /\ tracker_call = [op |-> "new"]
    /\ tracker_log = <<>>

RoiIdle ==
    /\ original_shape = <<480, 640>>
    /\ tracker = NewTracker(320, 50, 5)
    /\ tracker_pre = tracker
    /\ tracker_call = [op |-> "new"]
    /\ tracker_log = <<>>

RoiUpdate ==
    /\ Len(tracker_log) < MaxRoiUpdates
    /\ \E landmarks \in Poses :
          LET r == update(tracker, landmarks, original_shape)
          IN  /\ tracker' = r.tracker
              /\ tracker_call' = [op |-> "update", landmarks |-> landmarks,
                                  branch |-> r.branch, center |-> r.center,
                                  predicted |-> r.predicted]
              /\ tracker_log' = Append(tracker_log, landmarks)
    /\ tracker_pre' = tracker
    /\ UNCHANGED <<original_shape, notRoi>>

RoiNext == RoiUpdate

--------------------------------------------------------------------------
(* Byte strings (main.py): a bytes object is a sequence of integers        *)
(* 0 .. 255.  struct.pack is modelled bit for bit: integers big-endian,    *)
(* floats in IEEE 754 binary32 / binary64, rounded to nearest.             *)

RECURSIVE Pow2(_)
Pow2(n) == IF n = 0 THEN 1 ELSE 2 * Pow2(n - 1)

\* struct.pack('!B', v), ('!H', v), ('!I', v) for a value that fits.
PackUInt(v, nbytes) ==
    [i \in 1..nbytes |-> (v \div Pow2(8 * (nbytes - i))) % 256]

\* The exponent e of a positive float a / Scale: 2^e <= a / Scale < 2^(e+1).
RECURSIVE ExponentUp(_, _)
ExponentUp(a, e) == IF a < Scale * Pow2(e + 1) THEN e ELSE ExponentUp(a, e + 1)
RECURSIVE ExponentDown(_, _)
ExponentDown(a, k) == IF a * Pow2(k) >= Scale THEN -k ELSE ExponentDown(a, k + 1)
Exponent(a) == IF a >= Scale THEN ExponentUp(a, 0) ELSE ExponentDown(a, 1)

\* The binary expansion of num / den (0 <= num < den) cut into digits of
\* the given widths in bits, and what is left over: <<digits, remainder>>.
RECURSIVE FractionDigitsBase2(_, _, _)
FractionDigitsBase2(num, den, widths) ==
    IF widths = <<>>
    THEN <<<<>>, num>>
    ELSE LET scaled == num * Pow2(Head(widths))
             rest   == FractionDigitsBase2(scaled % den, den, Tail(widths))
         IN  << <<scaled \div den>> \o rest[1], rest[2] >>

\* The digits plus one in the last place; the carry out of the top is dropped.
RECURSIVE IncrementDigits(_, _)
IncrementDigits(digits, widths) ==
    IF digits = <<>> THEN <<>>
    ELSE LET n == Len(digits)
         IN  IF digits[n] + 1 < Pow2(widths[n])
             THEN [digits EXCEPT ![n] = digits[n] + 1]
             ELSE Append(IncrementDigits(SubSeq(digits, 1, n - 1), SubSeq(widths, 1, n - 1)), 0)

\* struct.pack('!f', v) with (ebits, mbits) = (8, 23) and ('!d', v) with
\* (11, 52), for the float v / Scale: sign bit, biased exponent, mantissa,
\* the mantissa rounded to nearest with ties to even.  The mantissa is cut
\* into the bits that share a byte with the exponent and whole bytes.
PackFloat(v, ebits, mbits) ==
    IF v = 0
    THEN [i \in 1..((1 + ebits + mbits) \div 8) |-> 0]
    ELSE LET a      == Abs(v)
             e      == Exponent(a)
             num    == IF e >= 0 THEN a ELSE a * Pow2(-e)
             den    == IF e >= 0 THEN Scale * Pow2(e) ELSE Scale
             widths == <<15 - ebits>> \o [i \in 1..((mbits + ebits - 15) \div 8) |-> 8]
             fr     == FractionDigitsBase2(num - den, den, widths)
             last   == fr[1][Len(widths)]
             up     == 2 * fr[2] > den \/ (2 * fr[2] = den /\ last % 2 = 1)
             carry  == up /\ \A i \in 1..Len(widths) : fr[1][i] = Pow2(widths[i]) - 1
             mant   == IF up THEN IncrementDigits(fr[1], widths) ELSE fr[1]
             expo   == e + Pow2(ebits - 1) - 1 + (IF carry THEN 1 ELSE 0)
         IN  << (IF v < 0 THEN 128 ELSE 0) + expo \div Pow2(ebits - 7),
                (expo % Pow2(ebits - 7)) * Pow2(15 - ebits) + mant[1] >>
                 \o Tail(mant)

pack_f(v) == PackFloat(v, 8, 23)
pack_d(v) == PackFloat(v, 11, 52)

\* The concatenation of a sequence of byte strings, by halves.
RECURSIVE Concat(_)
Concat(parts) ==
    IF Len(parts) = 0 THEN <<>>
    ELSE IF Len(parts) = 1 THEN parts[1]
    ELSE LET half == Len(parts) \div 2
         IN  Concat(SubSeq(parts, 1, half)) \o Concat(SubSeq(parts, half + 1, Len(parts)))

\* serialize_single_landmarks: the binary payload of one frame.
serialize_single_landmarks_short_count(f) ==
    pack_d(f.timestamp)
        \o pack_f(f.capture_ms) \o pack_f(f.inference_ms)
        \o pack_f(f.filter_ms) \o pack_f(f.serialization_ms)
        \o PackUInt(f.frame_count, 4)
        \o pack_f(f.processing_fps)
        \o PackUInt(f.skip_frames, 1)
        \o PackUInt(Len(f.landmarks), 1)
        \o Concat([i \in 1..Len(f.landmarks) |->
                      PackUInt(f.landmarks[i].id, 1)
                          \o pack_f(f.landmarks[i].x) \o pack_f(f.landmarks[i].y)
                          \o pack_f(f.landmarks[i].z) \o pack_f(f.landmarks[i].v)])
serialize_single_landmarks(f) ==
    pack_d(f.timestamp)
        \o pack_f(f.capture_ms) \o pack_f(f.inference_ms)
        \o pack_f(f.filter_ms) \o pack_f(f.serialization_ms)
        \o PackUInt(f.frame_count, 4)
        \o pack_f(f.processing_fps)
        \o PackUInt(f.skip_frames, 1)
        \o PackUInt(Len(f.landmarks), 2)
        \o Concat([i \in 1..Len(f.landmarks) |->
                      PackUInt(f.landmarks[i].id, 1)
                          \o pack_f(f.landmarks[i].x) \o pack_f(f.landmarks[i].y)
                          \o pack_f(f.landmarks[i].z) \o pack_f(f.landmarks[i].v)])

\* The printable ASCII characters in code order: those from the space (32)
\* to the underscore (95), and those from "a" (97) on.
Printable ==
    " !\"#$%&'()*+,-./0123456789:;<=>?@ABCDEFGHIJKLMNOPQRSTUVWXYZ[\\]^_"
PrintableFromA == "abcdefghijklmnopqrstuvwxyz{|}~"

\* The characters of a text.
Chars(text) == { SubSeq(text, k, k) : k \in 1..Len(text) }

\* The place of the character c in the text chars.
IndexIn(chars, c) == CHOOSE k \in 1..Len(chars) : SubSeq(chars, k, k) = c

\* ord(c) for every printable ASCII character c.
Ord ==
    [c \in Chars(Printable) \cup Chars(PrintableFromA) |->
        IF c \in Chars(Printable) THEN 31 + IndexIn(Printable, c)
                                  ELSE 96 + IndexIn(PrintableFromA, c)]

\* str.encode() of a text of printable ASCII characters.
Encode(text) == [i \in 1..Len(text) |-> Ord[SubSeq(text, i, i)]]

\* The digits of the thousandths n (0 .. 999) after the decimal point, as
\* repr() writes them: no trailing zero but for a lone one.
FractionDigits(n) ==
    IF n % 1000 = 0 THEN "0"
    ELSE IF n % 100 = 0 THEN ToString(n \div 100)
    ELSE IF n % 10 = 0 THEN (IF n < 100 THEN "0" ELSE "") \o ToString(n \div 10)
    ELSE (IF n < 10 THEN "00" ELSE IF n < 100 THEN "0" ELSE "") \o ToString(n)

\* json.dumps of the float v / Scale (its repr) and of an int.
JsonFloat(v) ==
    (IF v < 0 THEN "-" ELSE "") \o ToString(Abs(v) \div Scale) \o "."
        \o FractionDigits(Abs(v) % Scale)
JsonInt(n) == ToString(n)

RECURSIVE JsonJoin(_)
JsonJoin(items) ==
    IF items = <<>> THEN ""
    ELSE IF Len(items) = 1 THEN items[1]
    ELSE items[1] \o ", " \o JsonJoin(Tail(items))

JsonLandmark(lm) ==
    "{\"id\": " \o JsonInt(lm.id) \o ", \"x\": " \o JsonFloat(lm.x)
        \o ", \"y\": " \o JsonFloat(lm.y) \o ", \"z\": " \o JsonFloat(lm.z)
        \o ", \"v\": " \o JsonFloat(lm.v) \o "}"

\* json.dumps of the nine keys that send() and serialize_landmarks_json
\* both write first, up to the end of the landmarks list.
JsonHead(f) ==
    "{\"timestamp\": " \o JsonFloat(f.timestamp)
        \o ", \"capture_ms\": " \o JsonFloat(f.capture_ms)
        \o ", \"inference_ms\": " \o JsonFloat(f.inference_ms)
        \o ", \"filter_ms\": " \o JsonFloat(f.filter_ms)
        \o ", \"serialization_ms\": " \o JsonFloat(f.serialization_ms)
        \o ", \"frame_count\": " \o JsonInt(f.frame_count)
        \o ", \"processing_fps\": " \o JsonFloat(f.processing_fps)
        \o ", \"skip_frames\": " \o JsonInt(f.skip_frames)
        \o ", \"landmarks\": ["
        \o JsonJoin([i \in 1..Len(f.landmarks) |-> JsonLandmark(f.landmarks[i])])
        \o "]"

\* json.dumps(payload) for the payload dict that send() builds.
JsonPayload(f) == JsonHead(f) \o "}"

\* serialize_landmarks_json: the payload of send() and then num_poses and
\* poses, a list of (pose_id, landmarks) pairs; as text, before encode().
JsonPose(pose_id, landmarks) ==
    "{\"pose_id\": " \o JsonInt(pose_id) \o ", \"landmarks\": ["
        \o JsonJoin([i \in 1..Len(landmarks) |-> JsonLandmark(landmarks[i])]) \o "]}"

serialize_landmarks_json(f, all_poses) ==
    JsonHead(f)
        \o ", \"num_poses\": "
        \o JsonInt(IF all_poses # <<>> THEN Len(all_poses)
                   ELSE IF f.landmarks # <<>> THEN 1 ELSE 0)
        \o ", \"poses\": ["
        \o JsonJoin(IF all_poses # <<>>
                    THEN [i \in 1..Len(all_poses) |->
                             JsonPose(all_poses[i][1], all_poses[i][2])]
                    ELSE IF f.landmarks # <<>>
                    THEN <<JsonPose(0, f.landmarks)>>
                    ELSE <<>>)
        \o "]}"

\* serialize_landmarks_binary: serialize_single_landmarks under another name.
serialize_landmarks_binary(f) == serialize_single_landmarks(f)

\* The frame data that send() queues: binary payload or encoded JSON text.
FrameData(f, binary) ==
    IF binary THEN serialize_single_landmarks(f) ELSE Encode(JsonPayload(f))

--------------------------------------------------------------------------
(* UDPSender (main.py).  A frame is the record of the arguments of send()  *)
(* but `binary`.  The socket is modelled by the list of sendto() calls     *)
(* made on it, each with its packet and whether it succeeded.              *)

\* The largest value struct.pack('!B', ...) takes.
MaxUByte == 255

NewSender(batch_size) ==
    [batch_size |-> batch_size, buffer_size |-> 4096, batch |-> <<>>,
     frames_in_batch |-> 0, sock |-> "open"]

\* The arguments of send() with the defaults of its signature for the timings.
Frame(landmarks, timestamp, frame_count) ==
    [landmarks |-> landmarks, timestamp |-> timestamp, capture_ms |-> 0,
     inference_ms |-> 0, filter_ms |-> 0, serialization_ms |-> 0,
     frame_count |-> frame_count, processing_fps |-> 60 * Scale, skip_frames |-> 1]

\* The packet for a sender of batch size 1: marker, then the frame data.
SinglePacket_with_count(batch, binary) ==
    <<IF binary THEN 1 ELSE 0>> \o PackUInt(1, 1) \o batch[1]
SinglePacket(batch, binary) ==
    <<IF binary THEN 1 ELSE 0>> \o batch[1]

\* The frames of a batch packet, each after the 4 bytes of its length.
BatchData_without_lengths(batch) ==
    Concat(batch)
BatchData(batch) ==
    Concat([i \in 1..Len(batch) |-> PackUInt(Len(batch[i]), 4) \o batch[i]])

\* The batch packet: marker, count byte, frames.
BatchPacket(batch, binary) ==
    <<IF binary THEN 2 ELSE 3>> \o PackUInt(Len(batch), 1) \o BatchData(batch)

\* What the try block of flush() does: the sendto() calls it makes.  Packing
\* a count above 255 raises struct.error before anything is sent; sendto()
\* fails on a closed socket and when the network fails.  Both are caught.
FlushAttempt_by_pending(s, binary, net_ok) ==
    IF Len(s.batch) = 1
    THEN <<[packet |-> SinglePacket(s.batch, binary), ok |-> net_ok /\ s.sock = "open"]>>
    ELSE IF Len(s.batch) > MaxUByte
         THEN <<>>
         ELSE <<[packet |-> BatchPacket(s.batch, binary), ok |-> net_ok /\ s.sock = "open"]>>
FlushAttempt(s, binary, net_ok) ==
    IF s.batch_size = 1
    THEN <<[packet |-> SinglePacket(s.batch, binary), ok |-> net_ok /\ s.sock = "open"]>>
    ELSE IF Len(s.batch) > MaxUByte
         THEN <<>>
         ELSE <<[packet |-> BatchPacket(s.batch, binary), ok |-> net_ok /\ s.sock = "open"]>>

\* flush(binary): the sender after it and the sendto() calls made.
flush_keeps_failed_batch(s, binary, net_ok) ==
    IF s.batch = <<>>
    THEN [sender |-> s, sendto |-> <<>>]
    ELSE LET made == FlushAttempt(s, binary, net_ok)
         IN  IF made # <<>> /\ ~made[1].ok
             THEN [sender |-> s, sendto |-> made]
             ELSE [sender |-> [s EXCEPT !.batch = <<>>, !.frames_in_batch = 0],
                   sendto |-> made]
flush(s, binary, net_ok) ==
    IF s.batch = <<>>
    THEN [sender |-> s, sendto |-> <<>>]
    ELSE [sender |-> [s EXCEPT !.batch = <<>>, !.frames_in_batch = 0],
          sendto |-> FlushAttempt(s, binary, net_ok)]

\* When send() flushes.
BatchFull_late(s) == s.frames_in_batch > s.batch_size
BatchFull(s) == s.frames_in_batch >= s.batch_size

\* send(..., binary): queue the frame data, flush when the batch is full.
send_newest_first(s, f, binary, net_ok) ==
    LET queued == [s EXCEPT !.batch = <<FrameData(f, binary)>> \o s.batch,
                            !.frames_in_batch = s.frames_in_batch + 1]
    IN  IF BatchFull(queued)
        THEN flush(queued, binary, net_ok)
        ELSE [sender |-> queued, sendto |-> <<>>]
send(s, f, binary, net_ok) ==
    LET queued == [s EXCEPT !.batch = Append(s.batch, FrameData(f, binary)),
                            !.frames_in_batch = s.frames_in_batch + 1]
    IN  IF BatchFull(queued)
        THEN flush(queued, binary, net_ok)
        ELSE [sender |-> queued, sendto |-> <<>>]

\* close(): flush() with its default binary = True, then close the socket.
close(s, net_ok) ==
    LET r == flush(s, TRUE, net_ok)
    IN  [sender |-> [r.sender EXCEPT !.sock = "closed"], sendto |-> r.sendto]

--------------------------------------------------------------------------
(* The sender under arbitrary calls: send() with either encoding, flush()  *)
(* with either marker, close(), over a network that may fail any sendto(). *)

\* Number of calls on the sender in a behaviour.
MaxUdpOps == 4

BatchSizes == {1, 2, 3}

\* The landmark lists sent: none, or one landmark.
LandmarkSets == { <<>>, <<[id |-> 0, x |-> 500, y |-> 400, z |-> 0, v |-> 900]>> }

\* The n-th frame of the loop, 16 ms after the one before.
FrameFor(n, landmarks) == Frame(landmarks, 16 * n, n)

UdpStart(sizes) ==
    /\ \E b \in sizes : sender = NewSender(b)
    /\ sender_pre = sender
    /\ sender_call = [op |-> "new", sendto |-> <<>>]
    /\ udp_log = <<>>
    /\ net = <<>>
    /\ udp_ops = 0

UdpIdle == UdpStart({1})

\* One call on the sender: its result r, recorded with the call.
UdpCall(call, r) ==
    /\ sender' = r.sender
    /\ sender_pre' = sender
    /\ sender_call' = [call EXCEPT !.sendto = r.sendto]
    /\ net' = net \o r.sendto
    /\ udp_ops' = udp_ops + 1
    /\ UNCHANGED notUdp

UdpSend ==
    /\ udp_ops < MaxUdpOps
    /\ \E landmarks \in LandmarkSets, binary \in BOOLEAN, net_ok \in BOOLEAN :
          LET frame == FrameFor(Len(udp_log), landmarks)
          IN  /\ UdpCall([op |-> "send", frame |-> frame, binary |-> binary,
                          sendto |-> <<>>],
                         send(sender, frame, binary, net_ok))
              /\ udp_log' = Append(udp_log, [frame |-> frame, binary |-> binary])

UdpFlush ==
    /\ udp_ops < MaxUdpOps
    /\ \E binary \in BOOLEAN, net_ok \in BOOLEAN :
          UdpCall([op |-> "flush", binary |-> binary, sendto |-> <<>>],
                  flush(sender, binary, net_ok))
    /\ UNCHANGED udp_log

UdpClose ==
    /\ udp_ops < MaxUdpOps
    /\ \E net_ok \in BOOLEAN :
          UdpCall([op |-> "close", sendto |-> <<>>], close(sender, net_ok))
    /\ UNCHANGED udp_log

UdpNext == UdpSend \/ UdpFlush \/ UdpClose

--------------------------------------------------------------------------
(* The sender fed by a steady stream of send() calls, one encoding for     *)
(* the whole stream, for batch sizes up to the limit of the count byte.    *)

\* How many batches' worth of frames the stream sends.
StreamBatches == 2

StreamBatchSizes == {2, 3, MaxUByte, MaxUByte + 1}

\* The stream alternates frames without and with a landmark.
StreamLandmarks(n) ==
    IF n % 2 = 0 THEN <<>> ELSE <<[id |-> 0, x |-> 500, y |-> 400, z |-> 0, v |-> 900]>>

UdpStreamSend ==
    /\ Len(udp_log) < StreamBatches * sender.batch_size
    /\ \E binary \in BOOLEAN, net_ok \in BOOLEAN :
          LET frame == FrameFor(Len(udp_log), StreamLandmarks(Len(udp_log)))
          IN  /\ udp_log # <<>> => binary = udp_log[1].binary
              /\ UdpCall([op |-> "send", frame |-> frame, binary |-> binary,
                          sendto |-> <<>>],
                         send(sender, frame, binary, net_ok))
              /\ udp_log' = Append(udp_log, [frame |-> frame, binary |-> binary])

UdpStreamNext == UdpStreamSend

--------------------------------------------------------------------------
(* The sender used as a program uses it: a stream of send() calls on the   *)
(* open sender, then close().                                              *)

DeliveryBatchSizes == {1} \cup StreamBatchSizes

UdpDeliverySend == sender.sock = "open" /\ UdpStreamSend

UdpDeliveryClose ==
    /\ sender.sock = "open"
    /\ \E net_ok \in BOOLEAN :
          UdpCall([op |-> "close", sendto |-> <<>>], close(sender, net_ok))
    /\ UNCHANGED udp_log

UdpDeliveryNext == UdpDeliverySend \/ UdpDeliveryClose

--------------------------------------------------------------------------
(* LatencyTracker (main.py): five sliding windows of timings, in ms.       *)

\* record_frame() logs the averages whenever frame_count reaches a multiple
\* of this.
LogEvery == 60

\* The default of LatencyTracker's window_size.
DefaultWindow == 60

NewLatencyTracker(window_size) ==
    [frame_count |-> 0, window_size |-> window_size,
     capture_times |-> <<>>, inference_times |-> <<>>,
     serialization_times |-> <<>>, filter_times |-> <<>>, total_times |-> <<>>]

\* _log_stats(): nothing with an empty window, else the averages printed,
\* in the order capture, inference, serialization, filter, total.
log_stats(lt) ==
    IF Len(lt.total_times) = 0
    THEN <<>>
    ELSE << [frame_count |-> lt.frame_count,
             averages |-> << FDiv(Sum(lt.capture_times), Float(Len(lt.capture_times))),
                             FDiv(Sum(lt.inference_times), Float(Len(lt.inference_times))),
                             FDiv(Sum(lt.serialization_times),
                                  Float(Len(lt.serialization_times))),
                             FDiv(Sum(lt.filter_times), Float(Len(lt.filter_times))),
                             FDiv(Sum(lt.total_times), Float(Len(lt.total_times))) >>] >>

\* record_frame(): the tracker after it and the lines it logged.
record_frame_without_eviction(lt, capture_ms, inference_ms, serialization_ms, filter_ms, total_ms) ==
    LET r == [lt EXCEPT !.capture_times = Append(@, capture_ms),
                        !.inference_times = Append(@, inference_ms),
                        !.serialization_times = Append(@, serialization_ms),
                        !.filter_times = Append(@, filter_ms),
                        !.total_times = Append(@, total_ms),
                        !.frame_count = @ + 1]
    IN  [tracker |-> r,
         logged |-> IF r.frame_count % LogEvery = 0 THEN log_stats(r) ELSE <<>>]
record_frame(lt, capture_ms, inference_ms, serialization_ms, filter_ms, total_ms) ==
    LET r == [lt EXCEPT !.capture_times = DequeAppend(@, capture_ms, lt.window_size),
                        !.inference_times = DequeAppend(@, inference_ms, lt.window_size),
                        !.serialization_times =
                            DequeAppend(@, serialization_ms, lt.window_size),
                        !.filter_times = DequeAppend(@, filter_ms, lt.window_size),
                        !.total_times = DequeAppend(@, total_ms, lt.window_size),
                        !.frame_count = @ + 1]
    IN  [tracker |-> r,
         logged |-> IF r.frame_count % LogEvery = 0 THEN log_stats(r) ELSE <<>>]

\* Number of record_frame() calls in a behaviour.
MaxRecords == 61

\* The window sizes a tracker is constructed with; main() takes the default.
WindowSizes == {0, 1, 3, DefaultWindow}

\* The series of timings fed to the tracker.
LatencyLoads == {1, 2}

\* The timings of the i-th frame of the series `load`, in the order of
\* record_frame()'s parameters: all different, none repeating in a window.
Timings(load, i) ==
    << 10 * i + load, 20 * i + load, 30 * i + load, 40 * i + load,
       100 * i + 4 * load >>

LatStart(sizes) ==
    /\ \E w \in sizes : latency_tracker = NewLatencyTracker(w)
    /\ latency_call = [op |-> "new", logged |-> <<>>]
    /\ latency_calls = 0
    /\ latency_load \in LatencyLoads

LatIdle ==
    /\ latency_tracker = NewLatencyTracker(DefaultWindow)
    /\ latency_call = [op |-> "new", logged |-> <<>>]
    /\ latency_calls = 0
    /\ latency_load = 1

LatRecordFrame ==
    /\ latency_calls < MaxRecords
    /\ LET t == Timings(latency_load, latency_calls + 1)
           r == record_frame(latency_tracker, t[1], t[2], t[3], t[4], t[5])
       IN  /\ latency_tracker' = r.tracker
           /\ latency_call' = [op |-> "record_frame", timings |-> t, logged |-> r.logged]
    /\ latency_calls' = latency_calls + 1
    /\ UNCHANGED <<latency_load, notLat>>

LatNext == LatRecordFrame

--------------------------------------------------------------------------
(* Filter presets (one_euro_filter.py) and the command line (args.py).     *)

FILTER_PRESETS ==
    [name \in {"responsive", "balanced", "smooth"} |->
        IF name = "responsive" THEN [min_cutoff |-> 2000, beta |-> 10, d_cutoff |-> One]
        ELSE IF name = "balanced" THEN [min_cutoff |-> One, beta |-> 5, d_cutoff |-> One]
        ELSE [min_cutoff |-> 500, beta |-> 2, d_cutoff |-> One]]

\* get_preset_params(preset_name): raises ValueError for an unknown name,
\* else returns a copy of the preset.
get_preset_params_with_fallback(preset_name) ==
    IF preset_name \notin DOMAIN FILTER_PRESETS
    THEN [raised |-> "", value |-> FILTER_PRESETS["balanced"]]
    ELSE [raised |-> "", value |-> FILTER_PRESETS[preset_name]]
get_preset_params(preset_name) ==
    IF preset_name \notin DOMAIN FILTER_PRESETS
    THEN [raised |-> "ValueError"]
    ELSE [raised |-> "", value |-> FILTER_PRESETS[preset_name]]

\* parse_args(): the options the program reads.  A command line is the
\* record of what was given: the flags as booleans, the valued options as
\* None or the value.  store_true options take their default when absent
\* and True when given; --filter-preset is checked against its choices
\* (exit status 2 otherwise).
parse_args(cmd) ==
    IF cmd.filter_preset # None /\ Get(cmd.filter_preset) \notin DOMAIN FILTER_PRESETS
    THEN [exit |-> 2]
    ELSE [exit |-> 0,
          args |-> [binary_protocol   |-> IF cmd.binary_protocol THEN TRUE ELSE FALSE,
                    json_protocol     |-> IF cmd.json_protocol THEN TRUE ELSE TRUE,
                    use_filter        |-> IF cmd.no_filter THEN FALSE ELSE TRUE,
                    filter_preset     |-> IF cmd.filter_preset # None
                                          THEN Get(cmd.filter_preset) ELSE "balanced",
                    filter_min_cutoff |-> None,
                    filter_beta       |-> cmd.filter_beta,
                    filter_d_cutoff   |-> None,
                    skip_frames       |-> IF cmd.skip_frames # None
                                          THEN Get(cmd.skip_frames) ELSE 1,
                    max_fps           |-> 60]]

--------------------------------------------------------------------------
(* The processing program (main.py): the module's import, main() up to     *)
(* its loop, the loop's iterations and the cleanup after it.  The clock    *)
(* reads seconds since a recent instant; the camera, the detector and the  *)
(* network are the program's environment and answer as the actions say.    *)

\* The filter bank of main() holds this many landmarks.
NumLandmarks == 33

\* One loop iteration lasts this long on the model's clock (1 / Scale s).
FrameInterval == 16

\* main() from its start to the loop: the filter bank (or None), then the
\* camera; camera_ok tells whether the camera could be opened.
MainSetup(args, camera_ok) ==
    LET preset == IF args.use_filter THEN get_preset_params(args.filter_preset)
                  ELSE [raised |-> ""]
    IN  IF preset.raised # ""
        THEN [pc |-> "exit", error |-> preset.raised, filter_bank |-> None]
        ELSE LET filter_bank ==
                     IF args.use_filter
                     THEN Some(NewBank(NumLandmarks,
                                  IF args.filter_min_cutoff # None
                                  THEN Get(args.filter_min_cutoff)
                                  ELSE preset.value.min_cutoff,
                                  IF args.filter_beta # None
                                  THEN Get(args.filter_beta) ELSE preset.value.beta,
                                  IF args.filter_d_cutoff # None
                                  THEN Get(args.filter_d_cutoff)
                                  ELSE preset.value.d_cutoff))
                     ELSE None
             IN  IF ~camera_ok
                 THEN [pc |-> "exit", error |-> "camera", filter_bank |-> filter_bank]
                 ELSE [pc |-> "loop", error |-> "", filter_bank |-> filter_bank]

\* The landmarks of the first pose after the filter step of the loop, and
\* the bank after it: the bank runs only when there is one and a pose.
FilterStep(filter_bank, landmarks, timestamp) ==
    IF filter_bank # None /\ landmarks # <<>>
    THEN LET r == filter_landmarks(Get(filter_bank), landmarks, timestamp)
         IN  [landmarks |-> Get(r.ret), filter_bank |-> Some(r.bank)]
    ELSE [landmarks |-> landmarks, filter_bank |-> filter_bank]

\* Which encoding the loop's send step takes: the test of its `if`.
BinaryMode(args) == args.binary_protocol /\ ~args.json_protocol

\* The packet the send step builds for a frame and all detected poses.
LoopPacket(args, f, all_landmarks) ==
    IF BinaryMode(args)
    THEN <<1>> \o serialize_landmarks_binary(f)
    ELSE <<0>> \o Encode(serialize_landmarks_json(f, all_landmarks))

\* The try block of the send step: one sendto(), which fails when the
\* network does; the except clause logs the error and goes on.
SendStep(args, f, all_landmarks, net_ok) ==
    <<[packet |-> LoopPacket(args, f, all_landmarks), ok |-> net_ok]>>

\* One iteration of the loop that gets a frame and processes it: detection
\* gave the poses `detected` (a list of landmark lists), the measured times
\* are `times` (capture, inference, serialization, filter, total).
ProcessFrame(p, detected, times, net_ok) ==
    LET all_landmarks == [i \in 1..Len(detected) |-> <<i - 1, detected[i]>>]
        first == IF all_landmarks # <<>> THEN all_landmarks[1][2] ELSE <<>>
        rec == record_frame(p.latency_tracker, times[1], times[2], times[3],
                            times[4], times[5])
    IN  CHOOSE res \in
            { LET f == [landmarks |-> fl.landmarks, timestamp |-> p.now,
                        capture_ms |-> times[1], inference_ms |-> times[2],
                        filter_ms |-> times[4], serialization_ms |-> 0,
                        frame_count |-> p.latency_tracker.frame_count,
                        processing_fps |-> p.processing_fps,
                        skip_frames |-> p.skip_frames]
              IN  [prog |-> [p EXCEPT !.filter_bank = fl.filter_bank,
                                      !.latency_tracker = rec.tracker],
                   frame |-> f,
                   all_landmarks |-> all_landmarks,
                   sendto |-> SendStep(Get(p.args), f, all_landmarks, net_ok)]
              : fl \in {FilterStep(p.filter_bank, first, p.now)} } : TRUE

\* The program before its first step, for a command line.
NewProgram ==
    [pc |-> "import", error |-> "", running |-> TRUE, args |-> None,
     filter_bank |-> None, latency_tracker |-> NewLatencyTracker(DefaultWindow),
     skip_frames |-> 1, processing_fps |-> 0, frame_counter |-> 0,
     sock |-> "none", now |-> 0]

\* Number of loop iterations in a behaviour.
MaxIterations == 2

\* The command lines the program is started with.
CommandLines ==
    [binary_protocol : BOOLEAN, json_protocol : BOOLEAN, no_filter : BOOLEAN,
     filter_preset : {None, Some("smooth"), Some("fastest")},
     filter_beta : {None, Some(7)},
     skip_frames : {None, Some(0), Some(2)}]

\* What the detector finds in the n-th iteration: nobody, one moving body,
\* or that body and a second, hardly visible one.
Detections(n) ==
    LET body == <<[id |-> 0, x |-> 400 + 100 * n, y |-> 400, z |-> 0, v |-> 900]>>
        other == <<[id |-> 0, x |-> 200, y |-> 300, z |-> -100, v |-> 300]>>
    IN  { <<>>, <<body>>, <<body, other>> }

ProgStart ==
    /\ argv \in CommandLines
    /\ prog = NewProgram
    /\ prog_call = [op |-> "start", sendto |-> <<>>]
    /\ prog_net = <<>>
    /\ prog_iters = 0

ProgIdle ==
    /\ argv = [binary_protocol |-> FALSE, json_protocol |-> FALSE, no_filter |-> FALSE,
               filter_preset |-> None, filter_beta |-> None, skip_frames |-> None]
    /\ prog = NewProgram
    /\ prog_call = [op |-> "start", sendto |-> <<>>]
    /\ prog_net = <<>>
    /\ prog_iters = 0

\* Importing the module: args = parse_args().
ProgImport ==
    /\ prog.pc = "import"
    /\ LET r == parse_args(argv)
       IN  prog' = IF r.exit # 0
                   THEN [prog EXCEPT !.pc = "exit", !.error = "argparse"]
                   ELSE [prog EXCEPT !.pc = "main", !.args = Some(r.args)]
    /\ prog_call' = [op |-> "import", sendto |-> <<>>]
    /\ UNCHANGED <<argv, prog_net, prog_iters, notProg>>

\* main() up to the loop.
ProgMain ==
    /\ prog.pc = "main"
    /\ \E camera_ok \in BOOLEAN :
          LET args == Get(prog.args)
              r == MainSetup(args, camera_ok)
              skip_frames == IF args.skip_frames < 1 THEN 1 ELSE args.skip_frames
          IN  prog' = [prog EXCEPT !.pc = r.pc, !.error = r.error,
                                   !.filter_bank = r.filter_bank,
                                   !.sock = "open",
                                   !.skip_frames = skip_frames,
                                   !.processing_fps =
                                       FDiv(Float(args.max_fps), Float(skip_frames))]
    /\ prog_call' = [op |-> "main", sendto |-> <<>>]
    /\ UNCHANGED <<argv, prog_net, prog_iters, notProg>>

\* One iteration of `while _running`: no frame (continue), a frame that is
\* skipped (continue), or a frame that is processed and sent.
ProgIterate ==
    /\ prog.pc = "loop" /\ prog.running
    /\ prog_iters < MaxIterations
    /\ \E ret \in BOOLEAN, detected \in Detections(prog_iters), net_ok \in BOOLEAN :
          LET p0 == [prog EXCEPT !.now = @ + FrameInterval]
              p1 == [p0 EXCEPT !.frame_counter = @ + 1]
          IN  IF ~ret
              THEN /\ prog' = p0
                   /\ prog_call' = [op |-> "no frame", sendto |-> <<>>]
                   /\ prog_net' = prog_net
              ELSE IF p1.frame_counter % p1.skip_frames # 0
              THEN /\ prog' = p1
                   /\ prog_call' = [op |-> "skip", sendto |-> <<>>]
                   /\ prog_net' = prog_net
              ELSE \E r \in {ProcessFrame(p1, detected, Timings(1, prog_iters + 1), net_ok)} :
                       /\ prog' = r.prog
                       /\ prog_call' = [op |-> "process", sendto |-> r.sendto,
                                        frame |-> r.frame,
                                        all_landmarks |-> r.all_landmarks]
                       /\ prog_net' = prog_net \o r.sendto
    /\ prog_iters' = prog_iters + 1
    /\ UNCHANGED <<argv, notProg>>

\* signal_handler: SIGINT or SIGTERM clears the running flag.
ProgSignal ==
    /\ prog.pc \in {"main", "loop"} /\ prog.running
    /\ prog' = [prog EXCEPT !.running = FALSE]
    /\ prog_call' = [op |-> "signal", sendto |-> <<>>]
    /\ UNCHANGED <<argv, prog_net, prog_iters, notProg>>

\* The loop finds the flag cleared: cleanup, the socket is closed.
ProgStop ==
    /\ prog.pc = "loop" /\ ~prog.running
    /\ prog' = [prog EXCEPT !.pc = "stopped", !.sock = "closed"]
    /\ prog_call' = [op |-> "stop", sendto |-> <<>>]
    /\ UNCHANGED <<argv, prog_net, prog_iters, notProg>>

ProgNext == ProgImport \/ ProgMain \/ ProgIterate \/ ProgSignal \/ ProgStop

--------------------------------------------------------------------------
(* serialize_single_landmarks() called once on a frame.                    *)

\* The longest landmark list serialized.
MaxSerLandmarks == 3

\* The landmarks the lists are made of.
SerLandmarks ==
    { [id |-> 0, x |-> 500, y |-> 400, z |-> 0, v |-> 900],
      [id |-> 7, x |-> 250, y |-> 1000, z |-> -125, v |-> 300],
      [id |-> 32, x |-> 750, y |-> 125, z |-> 2000, v |-> 1000] }

SerLandmarkLists ==
    UNION { [1..n -> SerLandmarks] : n \in 0..MaxSerLandmarks }

\* The frames serialized: the timings all different.
SerFrames ==
    { [landmarks |-> landmarks, timestamp |-> timestamp, capture_ms |-> 1500,
       inference_ms |-> 8250, filter_ms |-> 500, serialization_ms |-> 250,
       frame_count |-> frame_count, processing_fps |-> 30 * Scale, skip_frames |-> 2] :
      landmarks \in SerLandmarkLists, timestamp \in {0, 16, 5250},
      frame_count \in {0, 258, 70000} }

SerStart ==
    /\ ser_in \in SerFrames
    /\ ser_out = None

SerIdle ==
    /\ ser_in = Frame(<<>>, 0, 0)
    /\ ser_out = None

SerCall ==
    /\ ser_out = None
    /\ ser_out' = Some(serialize_single_landmarks(ser_in))
    /\ UNCHANGED <<ser_in, notSer>>

SerNext == SerCall

--------------------------------------------------------------------------
(* get_preset_params() called directly, as test_presets() does.            *)

\* The names it is called with: the presets and others.
PresetNames == {"responsive", "balanced", "smooth", "invalid", "fastest", "Balanced", ""}

PresetIdle == preset_call = [op |-> "none"]

PresetCall ==
    /\ \E name \in PresetNames :
          preset_call' = [op |-> "get_preset_params", name |-> name,
                          result |-> get_preset_params(name)]
    /\ UNCHANGED notPreset

--------------------------------------------------------------------------
(* FrameCapture (main.py) and the two threads that use it: the main thread *)
(* constructs it, reads frames in the loop of main() and stops it in the   *)
(* cleanup; the capture thread runs _capture_loop.  A frame is a buffer, a *)
(* place in pixels, which holds the image in it; images are numbered as    *)
(* the camera delivers them.  Time passes in ticks while the main thread   *)
(* waits.                                                                  *)

\* The waits of __init__ (timeout = 5.0) and of stop() (join(timeout=1.0)),
\* in ticks.
FirstFrameTimeout == 2
JoinTimeout == 1

\* Number of times the camera answers a read, and of loop iterations.
MaxCameraReads == 3
MaxGets == 2

\* The fields of a FrameCapture; isOpened and released are the state of
\* its cv2.VideoCapture, lock is the holder of its threading.Lock.
NewFrameCapture(opened) ==
    [isOpened |-> opened, released |-> FALSE, frame |-> None, lock |-> "free",
     running |-> TRUE, ready |-> FALSE]

\* _capture_loop: self.frame = frame
StoreFrame_only_when_empty(fc, frame) ==
    IF fc.frame = None THEN [fc EXCEPT !.frame = frame] ELSE fc
StoreFrame(fc, frame) == [fc EXCEPT !.frame = frame]

\* __init__ after its wait: the error it raises, or "" when it returns.
CtorOutcome_without_check(fc) == ""
CtorOutcome(fc) ==
    IF ~fc.ready THEN "Camera failed to capture first frame within timeout" ELSE ""

\* join(timeout=1.0) returns: the thread has ended or the timeout is over.
JoinReturns_when_thread_ends(thread, waited) == thread.pc = "exited"
JoinReturns(thread, waited) == thread.pc = "exited" \/ waited >= JoinTimeout

CapStart ==
    /\ frame_capture = NewFrameCapture(FALSE)
    /\ capture_thread = [pc |-> "unstarted", frame |-> None]
    /\ main_thread = [pc |-> "open", waited |-> 0, error |-> "", iterations |-> 0,
                      frame |-> None, sock |-> "open", running |-> TRUE]
    /\ pixels = <<>>
    /\ capture_log = [reads |-> 0, stored |-> <<>>, got |-> <<>>]

\* The capture component when another component is the one exercised.
CapIdle == CapStart

\* __init__: the device is opened or not; if it is, the thread is started.
MainOpen ==
    /\ main_thread.pc = "open"
    /\ \E opened \in BOOLEAN :
          /\ frame_capture' = NewFrameCapture(opened)
          /\ IF opened
             THEN /\ capture_thread' = [capture_thread EXCEPT !.pc = "test"]
                  /\ main_thread' = [main_thread EXCEPT !.pc = "wait", !.waited = 0]
             ELSE /\ capture_thread' = capture_thread
                  /\ main_thread' = [main_thread EXCEPT !.pc = "failed",
                                         !.error = "Could not open camera"]
    /\ UNCHANGED <<pixels, capture_log, notCap>>

\* __init__: while not self._ready and the timeout is not over: sleep.
MainWait ==
    /\ main_thread.pc = "wait"
    /\ main_thread' =
          IF ~frame_capture.ready /\ main_thread.waited < FirstFrameTimeout
          THEN [main_thread EXCEPT !.waited = @ + 1]
          ELSE [main_thread EXCEPT !.pc = "check"]
    /\ UNCHANGED <<frame_capture, capture_thread, pixels, capture_log, notCap>>

\* __init__: if not self._ready: raise; otherwise main() goes on to its loop.
MainCheck ==
    /\ main_thread.pc = "check"
    /\ LET error == CtorOutcome(frame_capture)
       IN  main_thread' = IF error # ""
                          THEN [main_thread EXCEPT !.pc = "failed", !.error = error]
                          ELSE [main_thread EXCEPT !.pc = "poll"]
    /\ UNCHANGED <<frame_capture, capture_thread, pixels, capture_log, notCap>>

\* while _running: the loop's poll of the flag.
MainPoll ==
    /\ main_thread.pc = "poll"
    /\ IF main_thread.running
       THEN /\ main_thread.iterations < MaxGets
            /\ main_thread' = [main_thread EXCEPT !.pc = "get_frame",
                                                  !.iterations = @ + 1]
       ELSE main_thread' = [main_thread EXCEPT !.pc = "cleanup"]
    /\ UNCHANGED <<frame_capture, capture_thread, pixels, capture_log, notCap>>

\* get_frame: with self.lock
MainAcquire ==
    /\ main_thread.pc = "get_frame"
    /\ frame_capture.lock = "free"
    /\ frame_capture' = [frame_capture EXCEPT !.lock = "main"]
    /\ main_thread' = [main_thread EXCEPT !.pc = "copy"]
    /\ UNCHANGED <<capture_thread, pixels, capture_log, notCap>>

\* get_frame: return self.frame.copy() if self.frame is not None else None,
\* and the lock is let go.
MainCopy ==
    /\ main_thread.pc = "copy"
    /\ LET present == frame_capture.frame # None
           copy == IF present THEN Some(Len(pixels) + 1) ELSE None
       IN  /\ pixels' = IF present
                        THEN Append(pixels, pixels[Get(frame_capture.frame)])
                        ELSE pixels
           /\ main_thread' = [main_thread EXCEPT !.pc = "body", !.frame = copy]
           /\ capture_log' = [capture_log EXCEPT !.got =
                                 Append(@, [frame |-> copy,
                                            stores |-> Len(capture_log.stored)])]
    /\ frame_capture' = [frame_capture EXCEPT !.lock = "free"]
    /\ UNCHANGED <<capture_thread, notCap>>

\* The rest of the iteration, back to the poll.
MainBody ==
    /\ main_thread.pc = "body"
    /\ main_thread' = [main_thread EXCEPT !.pc = "poll"]
    /\ UNCHANGED <<frame_capture, capture_thread, pixels, capture_log, notCap>>

\* signal_handler: _running = False, at any point of the main thread.
MainSignal ==
    /\ main_thread.pc \notin {"failed", "stopped"}
    /\ main_thread.running
    /\ main_thread' = [main_thread EXCEPT !.running = FALSE]
    /\ UNCHANGED <<frame_capture, capture_thread, pixels, capture_log, notCap>>

\* Cleanup, frame_capture.stop(): self._running = False
MainStop ==
    /\ main_thread.pc = "cleanup"
    /\ frame_capture' = [frame_capture EXCEPT !.running = FALSE]
    /\ main_thread' = [main_thread EXCEPT !.pc = "join", !.waited = 0]
    /\ UNCHANGED <<capture_thread, pixels, capture_log, notCap>>

\* stop(): self._thread.join(timeout=1.0)
MainJoin ==
    /\ main_thread.pc = "join"
    /\ main_thread' =
          IF JoinReturns(capture_thread, main_thread.waited)
          THEN [main_thread EXCEPT !.pc = "release"]
          ELSE [main_thread EXCEPT !.waited = @ + 1]
    /\ UNCHANGED <<frame_capture, capture_thread, pixels, capture_log, notCap>>

\* stop(): self.cap.release()
MainRelease ==
    /\ main_thread.pc = "release"
    /\ frame_capture' = [frame_capture EXCEPT !.released = TRUE]
    /\ main_thread' = [main_thread EXCEPT !.pc = "close"]
    /\ UNCHANGED <<capture_thread, pixels, capture_log, notCap>>

\* Cleanup: sock.close()
MainClose ==
    /\ main_thread.pc = "close"
    /\ main_thread' = [main_thread EXCEPT !.pc = "stopped", !.sock = "closed"]
    /\ UNCHANGED <<frame_capture, capture_thread, pixels, capture_log, notCap>>

\* The steps the main thread takes by itself.
MainNext ==
    \/ MainOpen \/ MainWait \/ MainCheck \/ MainPoll \/ MainAcquire \/ MainCopy
    \/ MainBody \/ MainStop \/ MainJoin \/ MainRelease \/ MainClose

\* _capture_loop: while self._running
CaptureTest ==
    /\ capture_thread.pc = "test"
    /\ capture_thread' = [capture_thread EXCEPT !.pc =
                              IF frame_capture.running THEN "read" ELSE "exited"]
    /\ UNCHANGED <<frame_capture, main_thread, pixels, capture_log, notCap>>

\* _capture_loop: ret, frame = self.cap.read() returns; a released device
\* gives no frame.  The read may also never return.
CaptureRead ==
    /\ capture_thread.pc = "read"
    /\ capture_log.reads < MaxCameraReads
    /\ \E ret \in BOOLEAN :
          /\ frame_capture.released => ~ret
          /\ IF ret
             THEN /\ pixels' = Append(pixels, capture_log.reads + 1)
                  /\ capture_thread' = [capture_thread EXCEPT !.pc = "acquire",
                                            !.frame = Some(Len(pixels) + 1)]
             ELSE /\ pixels' = pixels
                  /\ capture_thread' = [capture_thread EXCEPT !.pc = "test",
                                                              !.frame = None]
    /\ capture_log' = [capture_log EXCEPT !.reads = @ + 1]
    /\ UNCHANGED <<frame_capture, main_thread, notCap>>

\* _capture_loop: with self.lock
CaptureAcquire ==
    /\ capture_thread.pc = "acquire"
    /\ frame_capture.lock = "free"
    /\ frame_capture' = [frame_capture EXCEPT !.lock = "capture"]
    /\ capture_thread' = [capture_thread EXCEPT !.pc = "store"]
    /\ UNCHANGED <<main_thread, pixels, capture_log, notCap>>

\* _capture_loop: self.frame = frame
CaptureStore ==
    /\ capture_thread.pc = "store"
    /\ frame_capture' = StoreFrame(frame_capture, capture_thread.frame)
    /\ capture_thread' = [capture_thread EXCEPT !.pc = "ready"]
    /\ capture_log' = [capture_log EXCEPT !.stored =
                          Append(@, pixels[Get(capture_thread.frame)])]
    /\ UNCHANGED <<main_thread, pixels, notCap>>

\* _capture_loop: if not self._ready: self._ready = True, and the lock is
\* let go.
CaptureReady ==
    /\ capture_thread.pc = "ready"
    /\ frame_capture' = [frame_capture EXCEPT !.ready = TRUE, !.lock = "free"]
    /\ capture_thread' = [capture_thread EXCEPT !.pc = "test"]
    /\ UNCHANGED <<main_thread, pixels, capture_log, notCap>>

CaptureNext ==
    CaptureTest \/ CaptureRead \/ CaptureAcquire \/ CaptureStore \/ CaptureReady

CapNext == MainNext \/ MainSignal \/ CaptureNext

--------------------------------------------------------------------------
(* PredictiveROITracker.crop_frame and adjust_landmarks (roi_tracker.py).  *)
(* A frame is a view of the camera image: its shape <<height, width>> and  *)
(* the row and column of the image at which it begins.                     *)

NewFrame(shape) == [shape |-> shape, top |-> 0, left |-> 0]

\* The float a / b of two whole numbers, b > 0.
IntQuot(a, b) == RoundDiv(a * Scale, b)

\* numpy's [a:b] along an axis of n entries, for a >= 0 and b >= 0: the
\* first entry kept and the number of entries kept.
SliceOf(a, b, n) ==
    LET start == Min(a, n)
        stop == Min(b, n)
    IN  <<start, Max(0, stop - start)>>

\* crop_frame(frame): the cropped frame, the scale and the offset.
crop_frame(t, frame) ==
    IF t.roi = None
    THEN [cropped |-> frame, scale |-> <<One, One>>, offset |-> <<0, 0>>]
    ELSE LET x == Get(t.roi)[1]
             y == Get(t.roi)[2]
             w == Get(t.roi)[3]
             h == Get(t.roi)[4]
             rows == SliceOf(y, y + h, frame.shape[1])
             cols == SliceOf(x, x + w, frame.shape[2])
             cropped == [shape |-> <<rows[2], cols[2]>>,
                         top |-> frame.top + rows[1], left |-> frame.left + cols[1]]
             scale_y == IntQuot(cropped.shape[1], frame.shape[1])
             scale_x == IntQuot(cropped.shape[2], frame.shape[2])
         IN  [cropped |-> cropped, scale |-> <<scale_x, scale_x>>, offset |-> <<x, y>>]

\* adjust_landmarks divides the offset by this: 'frame' is no name of its
\* scope, so the test 'frame' in dir() is false and the else branch is taken.
OffsetDivisor == 1000

\* adjust_landmarks(landmarks, scale, offset): x and y of every landmark
\* are rewritten, the list is returned.
adjust_landmarks(landmarks, scale, offset) ==
    [i \in 1..Len(landmarks) |->
        [landmarks[i] EXCEPT
            !.x = FMul(@, scale[1]) + IntQuot(offset[1], OffsetDivisor),
            !.y = FMul(@, scale[2]) + IntQuot(offset[2], OffsetDivisor)]]

\* Number of update() calls before the ROI is used to crop.
MaxCropUpdates == 2

\* Pixels <<column, row>> of the camera image that lie in the frame fr: its
\* corners and its middle.
PointsIn(fr) ==
    { <<fr.left + dx, fr.top + dy>> :
        dx \in {0, fr.shape[2] \div 2, fr.shape[2] - 1},
        dy \in {0, fr.shape[1] \div 2, fr.shape[1] - 1} }

\* The coordinates of the pixel p of the camera image, normalized to fr.
Normalized(p, fr) ==
    [x |-> IntQuot(p[1] - fr.left, fr.shape[2]),
     y |-> IntQuot(p[2] - fr.top, fr.shape[1])]

CropStart == crop_call = [op |-> "none"]

CropIdle == crop_call = [op |-> "none"]

\* update() before the first crop.
CropUpdate ==
    /\ crop_call.op = "none"
    /\ Len(tracker_log) < MaxCropUpdates
    /\ RoiUpdate

\* crop_frame on a frame of the camera.
CropFrame ==
    /\ LET frame == NewFrame(original_shape)
       IN  crop_call' = [op |-> "crop_frame", frame |-> frame,
                         ret |-> crop_frame(tracker, frame)]
    /\ UNCHANGED <<roiVars, notCrop>>

\* adjust_landmarks on a landmark detected in the cropped frame, with the
\* scale and offset that crop_frame returned.
CropAdjust ==
    /\ crop_call.op = "crop_frame"
    /\ crop_call.ret.cropped.shape[1] > 0 /\ crop_call.ret.cropped.shape[2] > 0
    /\ \E p \in PointsIn(crop_call.ret.cropped) :
          LET landmarks == <<Normalized(p, crop_call.ret.cropped)>>
          IN  crop_call' = [op |-> "adjust_landmarks", frame |-> crop_call.frame,
                            crop |-> crop_call.ret, point |-> p,
                            landmarks |-> landmarks,
                            ret |-> adjust_landmarks(landmarks, crop_call.ret.scale,
                                                     crop_call.ret.offset)]
    /\ UNCHANGED <<roiVars, notCrop>>

CropNext == CropUpdate \/ CropFrame \/ CropAdjust

--------------------------------------------------------------------------
(* test_one_euro_filter (test_filter.py): a sine wave with noise, one      *)
(* sample every 16 ms, run through a OneEuroFilter; then the variance of   *)
(* the raw and of the filtered values.  A signal is the list of its raw    *)
(* samples math.sin(t * w) * amplitude + (random.random() - 0.5) * noise,  *)
(* with random.seed(i) before sample i, for t = t_start + i * 0.016.       *)

\* The test's signal, sin(5 t) with noise 0.1, for t_start 0, 0.3, 0.7, 1.0.
TestSignalAt0 ==
    <<34, 43, 205, 211, 288, 402, 491, 514, 570, 656, 724, 766,
       817, 838, 861, 979, 944, 980, 960, 1016, 1040, 961, 1028, 1006,
       961, 897, 898, 846, 746, 737, 679, 566, 507, 488, 412, 340,
       241, 199, 115, -7, -63, -150, -203, -340, -379, -465, -474, -595,
       -638, -745, -757, -832, -803, -879, -883, -993, -927, -1034, -989, -1028,
       -1015, -987, -927, -952, -920, -892, -886, -840, -723, -673, -590, -585,
       -542, -451, -319, -284, -215, -93, -12, 1, 94, 196, 238, 349,
       446, 464, 591, 591, 676, 701, 764, 798, 873, 957, 949, 994,
       972, 965, 986, 988, 954, 983, 918, 974>>

TestSignalAt300 ==
    <<1032, 963, 1042, 960, 943, 959, 947, 865, 815, 793, 753, 685,
       627, 542, 459, 474, 340, 280, 168, 139, 82, -72, -72, -155,
       -254, -363, -400, -481, -602, -623, -684, -792, -837, -834, -878, -911,
       -962, -950, -971, -1025, -1004, -1010, -975, -1020, -962, -949, -854, -869,
       -805, -803, -706, -672, -536, -505, -405, -415, -252, -267, -135, -91,
       -2, 96, 219, 249, 328, 396, 434, 503, 635, 690, 770, 764,
       786, 849, 943, 933, 950, 1011, 1025, 964, 976, 993, 943, 959,
       957, 872, 894, 787, 764, 679, 633, 559, 527, 507, 398, 345,
       229, 133, 70, -5, -111, -146, -268, -262>>

TestSignalAt700 ==
    <<-316, -461, -450, -590, -654, -675, -714, -812, -868, -885, -909, -950,
       -971, -1009, -1035, -953, -1012, -987, -1006, -935, -885, -926, -808, -767,
       -739, -718, -622, -569, -556, -442, -370, -347, -264, -136, -60, 22,
       80, 194, 268, 301, 401, 465, 559, 564, 663, 706, 820, 814,
       876, 864, 938, 937, 1029, 1005, 1041, 958, 1039, 933, 967, 906,
       883, 864, 865, 768, 718, 654, 558, 493, 490, 412, 360, 225,
       121, 63, 41, -80, -168, -203, -279, -420, -480, -527, -629, -656,
       -691, -798, -787, -895, -908, -972, -986, -1019, -999, -957, -995, -969,
       -996, -996, -956, -921, -911, -826, -822, -688>>

TestSignalAt1000 ==
    <<-924, -970, -856, -890, -847, -760, -690, -679, -627, -538, -457, -397,
       -320, -265, -202, -37, -17, 79, 124, 252, 352, 353, 505, 571,
       616, 645, 740, 784, 779, 866, 903, 882, 915, 984, 994, 1003,
       983, 1013, 997, 936, 937, 899, 889, 787, 777, 712, 717, 602,
       557, 440, 412, 312, 310, 195, 146, -16, -9, -181, -205, -319,
       -386, -440, -467, -583, -643, -708, -798, -847, -825, -871, -882, -968,
       -1015, -1010, -961, -1005, -1009, -957, -939, -983, -942, -884, -880, -800,
       -726, -724, -605, -605, -513, -474, -388, -324, -213, -85, -42, 60,
       100, 162, 256, 337, 385, 499, 524, 672>>

SlowSignal ==
    <<350, 331, 327, 308, 295, 286, 274, 256, 241, 229, 216, 200,
       186, 169, 152, 145, 124, 110, 91, 80, 67, 43, 35, 19,
       1, -19, -31, -48, -69, -81, -96, -117, -132, -143, -158, -173,
       -190, -201, -216, -235, -247, -261, -272, -291, -301, -315, -321, -338,
       -348, -364, -371, -384, -386, -400, -406, -423, -423, -440, -443, -453,
       -459, -464, -465, -475, -480, -485, -492, -495, -491, -494, -494, -501,
       -504, -502, -496, -499, -499, -493, -490, -494, -490, -484, -483, -475,
       -467, -467, -454, -454, -445, -440, -431, -423, -411, -397, -391, -379,
       -372, -363, -350, -338, -328, -312, -303, -282>>

\* The signals, and the filter each is run through: the four of the test
\* with the test's filter, and a slower, smaller wave with little noise
\* (sin(2 t) * 0.5, noise 0.01, t_start 4.33) through a more responsive one.
Signals ==
    { [name |-> "test at 0", samples |-> TestSignalAt0,
       min_cutoff |-> One, beta |-> 5, d_cutoff |-> One],
      [name |-> "test at 0.3", samples |-> TestSignalAt300,
       min_cutoff |-> One, beta |-> 5, d_cutoff |-> One],
      [name |-> "test at 0.7", samples |-> TestSignalAt700,
       min_cutoff |-> One, beta |-> 5, d_cutoff |-> One],
      [name |-> "test at 1.0", samples |-> TestSignalAt1000,
       min_cutoff |-> One, beta |-> 5, d_cutoff |-> One],
      [name |-> "slow", samples |-> SlowSignal,
       min_cutoff |-> 1500, beta |-> One, d_cutoff |-> One] }

TestSignalNames == {"test at 0", "test at 0.3", "test at 0.7", "test at 1.0"}

\* Number of samples of a signal that are filtered.
MaxNoiseSamples == 102

\* The test's frame interval, 0.016 s.
SampleInterval == 16

\* sum(v[lo .. hi]), by halves.
RECURSIVE SumOf(_, _, _)
SumOf(v, lo, hi) ==
    IF lo > hi THEN 0
    ELSE IF lo = hi THEN v[lo]
    ELSE LET mid == (lo + hi) \div 2
         IN  SumOf(v, lo, mid) + SumOf(v, mid + 1, hi)

\* sum((x - sum(v)/len(v))**2 for x in v) / len(v)
Variance(v) ==
    LET mean == RoundDiv(SumOf(v, 1, Len(v)), Len(v))
        squares == [i \in 1..Len(v) |-> FMul(v[i] - mean, v[i] - mean)]
    IN  RoundDiv(SumOf(squares, 1, Len(v)), Len(v))

NoiseStart ==
    /\ \E sig \in Signals :
          /\ oef = NewFilter(sig.min_cutoff, sig.beta, sig.d_cutoff)
          /\ noise_run = [signal |-> sig.name, samples |-> sig.samples,
                          raw_values |-> <<>>, filtered_values |-> <<>>]
    /\ oef_pre = oef
    /\ oef_call = NoCall
    /\ oef_calls = 0

NoiseIdle ==
    noise_run = [signal |-> "", samples |-> <<>>, raw_values |-> <<>>,
                 filtered_values |-> <<>>]

\* One turn of the test's loop: the next sample is filtered and both
\* values are appended.
NoiseFilter ==
    /\ oef_calls < MaxNoiseSamples
    /\ LET raw == noise_run.samples[oef_calls + 1]
           t == oef_calls * SampleInterval
           r == filter(oef, raw, t)
       IN  /\ oef' = r.st
           /\ oef_pre' = oef
           /\ oef_call' = [op |-> "filter", after |-> oef_call.op, x |-> raw, t |-> t,
                            ret |-> Some(r.ret)]
           /\ noise_run' = [noise_run EXCEPT !.raw_values = Append(@, raw),
                                              !.filtered_values = Append(@, r.ret)]
    /\ oef_calls' = oef_calls + 1
    /\ UNCHANGED notNoise

NoiseNext == NoiseFilter

--------------------------------------------------------------------------
(* The specifications: each exercises one component from its constructed   *)
(* state and leaves the others idle.                                       *)

InitFilter ==
    OefStart /\ BankIdle /\ RoiIdle /\ UdpIdle /\ LatIdle
        /\ ProgIdle /\ SerIdle /\ PresetIdle /\ CapIdle /\ CropIdle /\ NoiseIdle
SpecFilter == InitFilter /\ [][OefNext]_vars

SpecConstant == InitFilter /\ [][ConstantNext]_vars

InitBank ==
    BankStart /\ OefIdle /\ RoiIdle /\ UdpIdle /\ LatIdle
        /\ ProgIdle /\ SerIdle /\ PresetIdle /\ CapIdle /\ CropIdle /\ NoiseIdle
SpecBank == InitBank /\ [][BankNext]_vars

InitRoi ==
    RoiStart /\ OefIdle /\ BankIdle /\ UdpIdle /\ LatIdle
        /\ ProgIdle /\ SerIdle /\ PresetIdle /\ CapIdle /\ CropIdle /\ NoiseIdle
SpecRoi == InitRoi /\ [][RoiNext]_vars

InitUdp ==
    UdpStart(BatchSizes) /\ OefIdle /\ BankIdle /\ RoiIdle /\ LatIdle
        /\ ProgIdle /\ SerIdle /\ PresetIdle /\ CapIdle /\ CropIdle /\ NoiseIdle
SpecUdp == InitUdp /\ [][UdpNext]_vars

InitUdpStream ==
    UdpStart(StreamBatchSizes) /\ OefIdle /\ BankIdle /\ RoiIdle /\ LatIdle
        /\ ProgIdle /\ SerIdle /\ PresetIdle /\ CapIdle /\ CropIdle /\ NoiseIdle
SpecUdpStream == InitUdpStream /\ [][UdpStreamNext]_vars

InitUdpDelivery ==
    UdpStart(DeliveryBatchSizes) /\ OefIdle /\ BankIdle /\ RoiIdle /\ LatIdle
        /\ ProgIdle /\ SerIdle /\ PresetIdle /\ CapIdle /\ CropIdle /\ NoiseIdle
SpecUdpDelivery == InitUdpDelivery /\ [][UdpDeliveryNext]_vars

InitLatency ==
    LatStart(WindowSizes) /\ OefIdle /\ BankIdle /\ RoiIdle /\ UdpIdle
        /\ ProgIdle /\ SerIdle /\ PresetIdle /\ CapIdle /\ CropIdle /\ NoiseIdle
SpecLatency == InitLatency /\ [][LatNext]_vars

\* Either of the two places that send is exercised, the other left as
\* constructed: the UDPSender or the program's loop.
InitSending ==
    /\ \/ UdpStart(BatchSizes) /\ ProgIdle
       \/ UdpIdle /\ ProgStart
    /\ OefIdle /\ BankIdle /\ RoiIdle /\ LatIdle /\ SerIdle /\ PresetIdle /\ CapIdle /\ CropIdle /\ NoiseIdle
SendingNext ==
    \/ ProgIdle /\ UdpNext
    \/ UdpIdle /\ ProgNext
SpecSending == InitSending /\ [][SendingNext]_vars

InitSerialize ==
    SerStart /\ OefIdle /\ BankIdle /\ RoiIdle /\ UdpIdle /\ LatIdle /\ ProgIdle
        /\ PresetIdle /\ CapIdle /\ CropIdle /\ NoiseIdle
SpecSerialize == InitSerialize /\ [][SerNext]_vars

InitProgram ==
    ProgStart /\ OefIdle /\ BankIdle /\ RoiIdle /\ UdpIdle /\ LatIdle /\ SerIdle
        /\ PresetIdle /\ CapIdle /\ CropIdle /\ NoiseIdle
SpecProgram == InitProgram /\ [][ProgNext]_vars

\* The presets in use: the program started on a command line, or, with the
\* program left alone, get_preset_params() called directly.
PresetsNext ==
    \/ PresetIdle /\ ProgNext
    \/ ProgIdle /\ PresetCall
SpecPresets == InitProgram /\ [][PresetsNext]_vars

\* The main thread runs whenever it can, and so does the capture thread
\* while it holds the lock; the camera may never answer a read and no
\* signal need arrive.
InitCapture ==
    CapStart /\ OefIdle /\ BankIdle /\ RoiIdle /\ UdpIdle /\ LatIdle /\ ProgIdle
        /\ SerIdle /\ PresetIdle /\ CropIdle /\ NoiseIdle
SpecCapture ==
    InitCapture /\ [][CapNext]_vars
        /\ WF_vars(MainNext) /\ WF_vars(CaptureStore \/ CaptureReady)

\* The tracker after a few updates, then its ROI used to crop a frame and
\* to map a landmark back.
InitCrop ==
    RoiStart /\ CropStart /\ OefIdle /\ BankIdle /\ UdpIdle /\ LatIdle /\ ProgIdle
        /\ SerIdle /\ PresetIdle /\ CapIdle /\ NoiseIdle
SpecCrop == InitCrop /\ [][CropNext]_vars

InitNoise ==
    NoiseStart /\ BankIdle /\ RoiIdle /\ UdpIdle /\ LatIdle /\ ProgIdle
        /\ SerIdle /\ PresetIdle /\ CapIdle /\ CropIdle
SpecNoise == InitNoise /\ [][NoiseNext]_vars

--------------------------------------------------------------------------
(* Properties of OneEuroFilter, checked under SpecFilter.                  *)

\* A filter that holds no state.
Stateless(f) == f.x_prev = None /\ f.dx_prev = None /\ f.t_prev = None

\* C2: filter(x, t) on a filter that holds no state, that is the first call
\* after construction or after reset(), returns exactly x and stores
\* (value x, derivative 0, timestamp t).
C2_FirstSamplePassesThrough ==
    (oef_call.op = "filter" /\ oef_call.after \in {"new", "reset"}) =>
        /\ oef_call.ret = Some(oef_call.x)
        /\ oef.x_prev = Some(oef_call.x)
        /\ oef.dx_prev = Some(0)
        /\ oef.t_prev = Some(oef_call.t)

\* C2 witness: the first filter() after a reset() that followed two earlier
\* samples, with a sample different from the value the filter held.
C2_Witness ==
    /\ oef_call.op = "filter"
    /\ oef_call.after = "reset"
    /\ oef_calls >= 3
    /\ oef_call.x = 1000
    /\ oef_call.ret = Some(oef_call.x)
    /\ Stateless(oef_pre)

\* A filter() call on a filter that held a state.
IsLaterFilterCall == oef_call.op = "filter" /\ oef_pre.t_prev # None

\* And one whose timestamp is not after the stored one.
IsStaleFilterCall == IsLaterFilterCall /\ oef_call.t <= Get(oef_pre.t_prev)

\* C16: once set, the stored timestamp never decreases from one filter()
\* call to the next, also when the call's timestamp is smaller.
C16_TimestampNeverDecreases ==
    IsLaterFilterCall => Get(oef.t_prev) >= Get(oef_pre.t_prev)

\* The smoothing factor for a cutoff at the default interval, and what
\* filter() is to compute from the state before with dt = 1/60 s.
DefaultAlpha(cutoff) ==
    FDiv(One, One + FDiv(FDiv(One, FMul(TwoPi, cutoff)), DefaultDt))
DefaultDx ==
    FMul(DefaultAlpha(oef_pre.d_cutoff), FDiv(oef_call.x - Get(oef_pre.x_prev), DefaultDt))
        + FMul(One - DefaultAlpha(oef_pre.d_cutoff), Get(oef_pre.dx_prev))
DefaultX ==
    LET alpha == DefaultAlpha(oef_pre.min_cutoff + FMul(oef_pre.beta, Abs(DefaultDx)))
    IN  FMul(alpha, oef_call.x) + FMul(One - alpha, Get(oef_pre.x_prev))

\* C17: filter() with a timestamp equal to or before the stored one returns
\* a value, the one computed with dt = 1/60 s in the derivative and in both
\* smoothing factors, and stores it with the smoothed derivative.
C17_StaleTimestampUsesDefaultInterval ==
    IsStaleFilterCall =>
        /\ oef_call.ret = Some(DefaultX)
        /\ oef.x_prev = Some(DefaultX)
        /\ oef.dx_prev = Some(DefaultDx)
        /\ oef.t_prev # None

\* C17 witness: a call 84 ms before the stored timestamp with a sample off
\* the stored value; the value returned lies strictly between the two.
C17_Witness ==
    /\ IsStaleFilterCall
    /\ oef_call.t = 16 /\ Get(oef_pre.t_prev) = 100
    /\ oef_call.x = 1000 /\ Get(oef_pre.x_prev) < 1000
    /\ Get(oef_call.ret) > Get(oef_pre.x_prev) /\ Get(oef_call.ret) < 1000
    /\ Get(oef.dx_prev) # Get(oef_pre.dx_prev)

--------------------------------------------------------------------------
(* Properties of LandmarkFilterBank.filter_landmarks, checked under        *)
(* SpecBank.  They are stated on the arguments and the result of the last  *)
(* call and on the bank before (bank_pre) and after (bank) it.             *)

IsFilterCall == bank_call.op = "filter_landmarks"

\* The ids of the bank's range 0 .. N-1.
InRange(id) == 0 <= id /\ id < bank_pre.num_landmarks

\* Landmark i of the call reaches the loop body (its id is not beyond the
\* filter count and Python's indexing accepts it), and the list index it uses.
Reaches(i) ==
    LET id == bank_call.landmarks[i].id
    IN  -bank_pre.num_landmarks <= id /\ id < bank_pre.num_landmarks
SlotUsed(i) ==
    LET id == bank_call.landmarks[i].id
    IN  IF id < 0 THEN id + bank_pre.num_landmarks ELSE id

\* The landmarks of the call before i (after i) that use the same list index as i.
EarlierSame(i) == { j \in 1..(i - 1) : Reaches(j) /\ SlotUsed(j) = SlotUsed(i) }
LaterSame(i) ==
    { j \in (i + 1)..Len(bank_call.landmarks) : Reaches(j) /\ SlotUsed(j) = SlotUsed(i) }

SetMax(S) == CHOOSE m \in S : \A k \in S : k <= m

\* The raw visibility of landmark i of the call (1.0 when it carries none).
RawVisibility(i) ==
    LET lm == bank_call.landmarks[i]
    IN  IF "v" \in DOMAIN lm THEN lm.v ELSE One

\* The previous visibility the bank holds for landmark i's id when the loop
\* comes to landmark i.
StoredVisibility(i) ==
    IF EarlierSame(i) = {}
    THEN bank_pre.prev_visibility[SlotUsed(i)]
    ELSE RawVisibility(SetMax(EarlierSame(i)))

\* Landmark i's visibility is on the other side of 0.5 from the stored one.
Crosses(i) ==
    (StoredVisibility(i) >= VISIBILITY_THRESHOLD) # (RawVisibility(i) >= VISIBILITY_THRESHOLD)

\* The entry of the returned list that landmark i of the call produced.
Emitted(i) ==
    Get(bank_call.ret)[Cardinality({ j \in 1..i : Reaches(j) })]

EmitsRaw(i) ==
    LET lm == bank_call.landmarks[i]
    IN  Emitted(i).x = lm.x /\ Emitted(i).y = lm.y /\ Emitted(i).z = lm.z

\* The in-range landmarks of the last call, when it returned a list.
ReturnedInRange ==
    IF IsFilterCall /\ bank_call.ret # None
    THEN { i \in 1..Len(bank_call.landmarks) : InRange(bank_call.landmarks[i].id) }
    ELSE {}

\* C1: an in-range landmark whose visibility lies on the other side of the
\* 0.5 threshold from the bank's stored previous visibility is emitted with
\* exactly its raw x, y and z.
C1_CrossingEmitsRaw ==
    \A i \in ReturnedInRange : Crosses(i) => EmitsRaw(i)

\* Some filter of the landmark held state.
HadState(fs) == \E c \in 1..3 : fs[c].x_prev # None

\* C1 witness: after two units of work on the bank, a landmark that the
\* bank holds as invisible is visible in this call and is emitted raw.
C1_Witness ==
    /\ bank_calls >= 3
    /\ \E i \in ReturnedInRange :
          /\ Crosses(i)
          /\ RawVisibility(i) >= VISIBILITY_THRESHOLD
          /\ EmitsRaw(i)
          /\ bank_call.landmarks[i].x = 700

\* The landmarks of the last call that the loop came to, in range and invisible.
InvisibleInRange ==
    IF IsFilterCall
    THEN { i \in 1..Len(bank_call.trace) :
             /\ InRange(bank_call.landmarks[i].id)
             /\ RawVisibility(i) < VISIBILITY_THRESHOLD }
    ELSE {}

\* The three filters of landmark i's id when the loop comes to landmark i and
\* when it leaves it: those of the bank before and after the call, unless
\* another landmark of the same call uses the same filters.
FiltersBefore(i) ==
    IF EarlierSame(i) = {}
    THEN bank_pre.filters[SlotUsed(i)]
    ELSE bank_call.trace[SetMax(EarlierSame(i))].after
FiltersAfter(i) ==
    LET later == { j \in LaterSame(i) : j <= Len(bank_call.trace) }
    IN  IF later = {}
        THEN bank.filters[SlotUsed(i)]
        ELSE bank_call.trace[CHOOSE m \in later : \A k \in later : m <= k].before

\* Filters with their parameters kept and their state cleared.
Cleared(fs) ==
    [c \in 1..3 |-> [fs[c] EXCEPT !.x_prev = None, !.dx_prev = None, !.t_prev = None]]

\* C3: an in-range landmark whose visibility is below 0.5 is emitted with its
\* raw x, y, z, and its axis filters are not run on the sample: they are left
\* unchanged if the landmark was already invisible and cleared if it just
\* became invisible.
C3_InvisiblePassesRawAndSparesFilters ==
    \A i \in InvisibleInRange :
        /\ bank_call.ret # None => EmitsRaw(i)
        /\ FiltersAfter(i) = IF StoredVisibility(i) >= VISIBILITY_THRESHOLD
                             THEN Cleared(FiltersBefore(i))
                             ELSE FiltersBefore(i)

\* C3 witness: a landmark whose filters held state becomes invisible: it is
\* emitted raw and the bank holds cleared filters for it after the call.
C3_Witness ==
    \E i \in InvisibleInRange :
        /\ EarlierSame(i) = {} /\ LaterSame(i) = {}
        /\ HadState(bank_pre.filters[SlotUsed(i)])
        /\ bank_call.ret # None /\ EmitsRaw(i)
        /\ \A c \in 1..3 : Stateless(bank.filters[SlotUsed(i)][c])

\* C4: every landmark whose id is outside 0 .. N-1 is silently ignored: the
\* call raises no error, and it returns what it returns and leaves the bank
\* as it leaves it when those landmarks are taken out of the input.
C4_OutOfRangeIgnored ==
    IsFilterCall =>
        LET kept == SelectSeq(bank_call.landmarks, LAMBDA lm : InRange(lm.id))
            r    == filter_landmarks(bank_pre, kept, bank_call.timestamp)
        IN  /\ bank_call.ret # None
            /\ bank_call.ret = r.ret
            /\ bank = r.bank

--------------------------------------------------------------------------
(* Properties of PredictiveROITracker, checked under SpecRoi.              *)

IsUpdate == tracker_call.op = "update"
IsEmptyUpdate == IsUpdate /\ tracker_call.landmarks = <<>>

\* The number of empty landmark lists at the end of the log: the updates in
\* a row, up to the last one, that found no subject.
RECURSIVE TrailingEmpty(_)
TrailingEmpty(log) ==
    IF log = <<>> \/ log[Len(log)] # <<>>
    THEN 0
    ELSE 1 + TrailingEmpty(SubSeq(log, 1, Len(log) - 1))

FullFrame == <<0, 0, original_shape[2], original_shape[1]>>

InsideFrame(r) ==
    /\ 0 <= r[1] /\ 0 <= r[2]
    /\ r[3] >= 0 /\ r[4] >= 0
    /\ r[1] + r[3] <= original_shape[2]
    /\ r[2] + r[4] <= original_shape[1]

\* C5: after every update(), whatever the sequence of tracked and empty
\* updates, the stored ROI (x, y, w, h) lies inside the W x H frame:
\* 0 <= x, 0 <= y, w >= 0, h >= 0, x + w <= W, y + h <= H.
C5_RoiInsideFrame ==
    IsUpdate => InsideFrame(Get(tracker.roi))

\* C6: when update() has been called with an empty landmark list more than
\* max_lost times in a row, the ROI is the full frame and the position and
\* velocity histories are empty, whatever the tracker held before.
C6_GivesUpAfterMaxLost ==
    TrailingEmpty(tracker_log) > tracker.max_lost =>
        /\ tracker.roi = Some(FullFrame)
        /\ tracker.positions = <<>>
        /\ tracker.velocities = <<>>

\* C6 witness: the update that goes over max_lost finds a tracker that still
\* held positions and velocities and was predicting from them.
C6_Witness ==
    /\ TrailingEmpty(tracker_log) = tracker.max_lost + 1
    /\ tracker_pre.velocities # <<>>
    /\ tracker_pre.roi # Some(FullFrame)
    /\ tracker.roi = Some(FullFrame)
    /\ tracker.positions = <<>>

\* The size of the enlarged search box: 1.5 times target_size * aspect and
\* 1.5 times target_size, cut to whole pixels.
EnlargedSize ==
    << (3 * tracker_pre.target_size * original_shape[2]) \div (2 * original_shape[1]),
       (3 * tracker_pre.target_size) \div 2 >>

HistoryKept ==
    /\ tracker.positions = tracker_pre.positions
    /\ tracker.velocities = tracker_pre.velocities

SearchesAroundPrediction ==
    /\ tracker_call.predicted # None
    /\ tracker.roi = Some(RoiAround(Get(tracker_call.predicted), EnlargedSize, original_shape))

\* C7 as stated: an empty update that leaves the lost counter <= max_lost,
\* after at least one tracked update since the last full reset, keeps the
\* history and sets the ROI to the enlarged box around the extrapolated
\* position, not to the full frame.
C7_AsStated ==
    (IsEmptyUpdate /\ tracker.lost_frames <= tracker.max_lost
                   /\ tracker_pre.positions # <<>>) =>
        /\ HistoryKept
        /\ SearchesAroundPrediction
        /\ tracker.roi # Some(FullFrame)

\* C7, amended: an empty update that leaves the lost counter <= max_lost
\* keeps the history and sets the ROI to the enlarged box around the
\* extrapolated position when at least one velocity is recorded, that is
\* after at least two tracked updates since the last full reset; after a
\* single tracked update it gives up at once: full frame, history cleared.
C7_SearchesWhileVelocityKnown ==
    (IsEmptyUpdate /\ tracker.lost_frames <= tracker.max_lost) =>
        IF tracker_pre.velocities # <<>>
        THEN HistoryKept /\ SearchesAroundPrediction
        ELSE /\ tracker.roi = Some(FullFrame)
             /\ tracker.positions = <<>> /\ tracker.velocities = <<>>

\* C7 witness: the second empty update in a row after tracked ones keeps a
\* history of two positions and searches a box that is larger than the
\* normal ROI and is not the full frame.
C7_Witness ==
    /\ IsEmptyUpdate /\ tracker.lost_frames = 2
    /\ Len(tracker.positions) >= 2 /\ tracker.velocities # <<>>
    /\ SearchesAroundPrediction
    /\ tracker.roi # Some(FullFrame)
    /\ Get(tracker.roi)[3] > RoiSize(tracker_pre, original_shape)[1]
    /\ Get(tracker.roi)[4] > RoiSize(tracker_pre, original_shape)[2]

\* The empty updates within the lost window that find a recorded velocity.
IsPrediction ==
    /\ IsEmptyUpdate
    /\ TrailingEmpty(tracker_log) <= tracker_pre.max_lost
    /\ tracker_pre.velocities # <<>>

\* The centroids of the two tracked updates before the trailing empty ones.
LastTracked(n) == tracker_log[Len(tracker_log) - TrailingEmpty(tracker_log) - n]
C1Centroid == Centroid(LastTracked(1), original_shape)
C2Centroid == Centroid(LastTracked(0), original_shape)

\* The search box is centred on p along every axis on which it is not cut
\* at the frame: p lies within a pixel of the middle of the box.
CentredOn(r, p) ==
    /\ (r[1] > 0 /\ r[3] = EnlargedSize[1]) =>
            Abs(2 * p[1] - Float(2 * r[1] + r[3])) <= Float(2)
    /\ (r[2] > 0 /\ r[4] = EnlargedSize[2]) =>
            Abs(2 * p[2] - Float(2 * r[2] + r[4])) <= Float(2)

\* C8: the k-th empty update in a row, 1 <= k <= max_lost, centres the
\* search box on the last recorded centroid plus k times the mean recorded
\* velocity; after exactly two tracked updates with centroids c1 then c2
\* that is c2 + k * (c2 - c1).
C8_LinearExtrapolation ==
    IsPrediction =>
        LET k    == TrailingEmpty(tracker_log)
            last == tracker_pre.positions[Len(tracker_pre.positions)]
            v    == << Mean(Column(tracker_pre.velocities, 1)),
                       Mean(Column(tracker_pre.velocities, 2)) >>
            p    == << last[1] + k * v[1], last[2] + k * v[2] >>
        IN  /\ tracker_call.predicted = Some(p)
            /\ tracker.roi = Some(RoiAround(p, EnlargedSize, original_shape))
            /\ CentredOn(Get(tracker.roi), p)
            /\ (Len(tracker_pre.positions) = 2 /\ Len(tracker_pre.velocities) = 1) =>
                  p = << C2Centroid[1] + k * (C2Centroid[1] - C1Centroid[1]),
                         C2Centroid[2] + k * (C2Centroid[2] - C1Centroid[2]) >>

\* C8 witness: two tracked updates on a fresh tracker with the subject
\* moving, then the third empty update: the prediction is three steps
\* further along and the box, not cut at the frame, is centred on it.
C8_Witness ==
    /\ IsPrediction
    /\ Len(tracker_log) = 5 /\ TrailingEmpty(tracker_log) = 3
    /\ C2Centroid # C1Centroid
    /\ tracker_call.predicted =
          Some(<< 4 * C2Centroid[1] - 3 * C1Centroid[1],
                  4 * C2Centroid[2] - 3 * C1Centroid[2] >>)
    /\ Get(tracker.roi)[1] > 0 /\ Get(tracker.roi)[3] = EnlargedSize[1]

--------------------------------------------------------------------------
(* Properties of UDPSender, checked under SpecUdpStream and SpecUdp.       *)

IsSend == sender_call.op = "send"

\* The frame data of the j-th frame passed to send().
Payload(j) == FrameData(udp_log[j].frame, udp_log[j].binary)

\* The 4 bytes of the big-endian length n.
BigEndian4(n) ==
    <<n \div 16777216, (n \div 65536) % 256, (n \div 256) % 256, n % 256>>

\* The batch packet the claim describes for the frames from..to of the log.
ExpectedBatch(from, to, binary) ==
    <<IF binary THEN 2 ELSE 3, to - from + 1>>
        \o Concat([j \in 1..(to - from + 1) |->
                      BigEndian4(Len(Payload(from + j - 1))) \o Payload(from + j - 1)])

\* A receiver's reading of a batch packet: n frames from index `at` on, each
\* a 4-byte big-endian length and that many bytes: <<frames, next index>>.
\* Long batches are read in runs of 16 frames.
ReadLength(packet, at) ==
    packet[at] * 16777216 + packet[at + 1] * 65536 + packet[at + 2] * 256 + packet[at + 3]

RECURSIVE SplitRun(_, _, _)
SplitRun(packet, at, n) ==
    IF n = 0
    THEN <<<<>>, at>>
    ELSE CHOOSE res \in UNION
            { { << <<SubSeq(packet, at + 4, at + 3 + len)>> \o rest[1], rest[2] >> :
                  rest \in {SplitRun(packet, at + 4 + len, n - 1)} } :
              len \in {ReadLength(packet, at)} } : TRUE

RECURSIVE SplitRuns(_, _, _)
SplitRuns(packet, at, n) ==
    IF n = 0
    THEN <<<<>>, at>>
    ELSE CHOOSE res \in UNION
            { { <<run[1] \o rest[1], rest[2]>> :
                  rest \in {SplitRuns(packet, run[2], n - Min(n, 16))} } :
              run \in {SplitRun(packet, at, Min(n, 16))} } : TRUE

\* The frames of a batch packet, read by its count byte and length prefixes;
\* <<>> if the frames do not end where the packet ends.
SplitBatch(packet) ==
    CHOOSE frames \in
        { IF r[2] = Len(packet) + 1 THEN r[1] ELSE <<>> :
            r \in {SplitRuns(packet, 3, packet[2])} } : TRUE

\* What C9 says of the send() just made, the i-th of the stream, on a sender
\* of batch size B: no sendto() unless i is a multiple of B, and then one
\* sendto() of the batch packet of the last B frames.
BatchOfLastFrames ==
    LET i == Len(udp_log)
        B == sender_pre.batch_size
    IN  IF i % B # 0
        THEN sender_call.sendto = <<>> /\ Len(net) = i \div B
        ELSE /\ Len(sender_call.sendto) = 1 /\ Len(net) = i \div B
             /\ sender_call.sendto[1].packet
                    = ExpectedBatch(i - B + 1, i, sender_call.binary)
             /\ SplitBatch(sender_call.sendto[1].packet)
                    = [j \in 1..B |-> Payload(i - B + j)]

\* C9 as stated: for every batch size B >= 2, from nothing pending, the
\* first B-1 send() calls make no sendto() and the B-th makes exactly one,
\* of the batch marker, the count byte B and the B length-prefixed payloads.
C9_AsStated ==
    (IsSend /\ sender_pre.batch_size >= 2) => BatchOfLastFrames

\* C9, amended: that holds for 2 <= B <= 255, the values the count byte
\* takes; for B > 255 the B-th send() makes no sendto() and drops the batch.
C9_BatchPacketUpToCountByte ==
    IsSend =>
        /\ (2 <= sender_pre.batch_size /\ sender_pre.batch_size <= MaxUByte)
              => BatchOfLastFrames
        /\ (sender_pre.batch_size > MaxUByte
                /\ Len(udp_log) % sender_pre.batch_size = 0)
              => sender_call.sendto = <<>> /\ net = <<>> /\ sender.batch = <<>>

\* C9 witness: the 255th send() on a sender of batch size 255 makes the one
\* sendto() so far, a JSON batch packet that carries the count byte 255 and
\* splits into 255 frames, the first of them JSON text.
C9_Witness ==
    /\ IsSend /\ sender_pre.batch_size = MaxUByte /\ Len(udp_log) = MaxUByte
    /\ Len(net) = 1 /\ Len(sender_call.sendto) = 1
    /\ sender_call.sendto[1].packet[1] = 3
    /\ sender_call.sendto[1].packet[2] = MaxUByte
    /\ Len(SplitBatch(sender_call.sendto[1].packet)) = MaxUByte
    /\ SplitBatch(sender_call.sendto[1].packet)[1][1] = Ord["{"]

\* C10: on a sender of batch size 1 every send() makes exactly one sendto(),
\* of the single-frame marker (0x01 binary, 0x00 JSON) followed directly by
\* the frame's payload, and leaves nothing pending.
C10_SingleFramePacketPerSend ==
    (IsSend /\ sender_pre.batch_size = 1) =>
        /\ Len(sender_call.sendto) = 1
        /\ sender_call.sendto[1].packet
              = <<IF sender_call.binary THEN 1 ELSE 0>>
                    \o FrameData(sender_call.frame, sender_call.binary)
        /\ sender.batch = <<>> /\ sender.frames_in_batch = 0

\* C10 witness: the third call on a sender of batch size 1 is a send() of a
\* JSON frame with a landmark; its packet is 0x00 and then the JSON text.
C10_Witness ==
    /\ IsSend /\ sender_pre.batch_size = 1 /\ udp_ops = 3 /\ Len(udp_log) = 3
    /\ ~sender_call.binary /\ sender_call.frame.landmarks # <<>>
    /\ Len(sender_call.sendto) = 1 /\ sender_call.sendto[1].ok
    /\ sender_call.sendto[1].packet[1] = 0
    /\ sender_call.sendto[1].packet[2] = Ord["{"]
    /\ Len(net) = 3 /\ sender.batch = <<>>

\* A call that flushes on request: flush(binary), or close(), which flushes
\* with binary = True.
IsFlush == sender_call.op \in {"flush", "close"}
FlushBinary == IF sender_call.op = "close" THEN TRUE ELSE sender_call.binary

\* The frames pending when the call was made.
Pending == sender_pre.batch

\* The two forms of a packet for the pending frames.
SingleForm == <<IF FlushBinary THEN 1 ELSE 0>> \o Pending[1]
BatchForm ==
    <<IF FlushBinary THEN 2 ELSE 3, Len(Pending)>>
        \o Concat([j \in 1..Len(Pending) |-> BigEndian4(Len(Pending[j])) \o Pending[j]])

\* C11 as stated: whatever the batch size, a flush with exactly one frame
\* pending sends the single-frame form, and the batch form is sent only
\* with more than one frame pending.
C11_AsStated ==
    (IsFlush /\ Pending # <<>>) =>
        /\ Len(sender_call.sendto) = 1
        /\ sender_call.sendto[1].packet
              = IF Len(Pending) = 1 THEN SingleForm ELSE BatchForm

\* C11, amended: the form follows the configured batch size, not the number
\* of frames pending: single-frame form when batch_size = 1, batch form
\* otherwise, with count byte 1 when exactly one frame is pending.
C11_FormFollowsBatchSize ==
    (IsFlush /\ Pending # <<>>) =>
        /\ Len(sender_call.sendto) = 1
        /\ sender_call.sendto[1].packet
              = IF sender_pre.batch_size = 1 THEN SingleForm ELSE BatchForm
        /\ sender.batch = <<>> /\ sender.frames_in_batch = 0

\* C11 witness: flush() on a sender of batch size 3 with exactly one frame
\* pending sends a batch packet whose count byte is 1.
C11_Witness ==
    /\ sender_call.op = "flush" /\ sender_pre.batch_size = 3 /\ Len(Pending) = 1
    /\ Len(sender_call.sendto) = 1
    /\ sender_call.sendto[1].packet[1] \in {2, 3}
    /\ sender_call.sendto[1].packet[2] = 1
    /\ SplitBatch(sender_call.sendto[1].packet) = Pending

--------------------------------------------------------------------------
(* Properties of LatencyTracker, checked under SpecLatency.                *)

\* The windows of a tracker, in the order of record_frame()'s parameters.
Windows(lt) ==
    << lt.capture_times, lt.inference_times, lt.serialization_times,
       lt.filter_times, lt.total_times >>

\* The last k of the m samples recorded so far for the w-th timing.
MostRecent(w, m, k) == [j \in 1..k |-> Timings(latency_load, m - k + j)[w]]

\* C15: after m record_frame() calls each of the five windows holds the
\* min(m, window_size) most recent samples of its timing in insertion
\* order, and frame_count is m.
C15_WindowsHoldMostRecent ==
    /\ latency_tracker.frame_count = latency_calls
    /\ \A w \in 1..5 :
          Windows(latency_tracker)[w]
              = MostRecent(w, latency_calls,
                           Min(latency_calls, latency_tracker.window_size))

\* C15 witness: the tracker of default window size after one call more
\* than the window holds: the windows are full, the first sample is gone
\* and the second is now the oldest.
C15_Witness ==
    /\ latency_call.op = "record_frame"
    /\ latency_tracker.window_size = DefaultWindow
    /\ latency_calls = DefaultWindow + 1
    /\ latency_tracker.frame_count = DefaultWindow + 1
    /\ Len(latency_tracker.total_times) = DefaultWindow
    /\ latency_tracker.total_times[1] = Timings(latency_load, 2)[5]
    /\ latency_tracker.total_times[DefaultWindow]
          = Timings(latency_load, DefaultWindow + 1)[5]

--------------------------------------------------------------------------
(* Properties of the processing program, checked under SpecProgram.        *)

\* The loop has just processed a frame and made its sendto().
IsProcess == prog_call.op = "process"

\* C14 as stated: with the binary protocol option enabled every packet the
\* loop sends is the binary encoding under marker 0x01, and without it
\* every packet is the JSON encoding under marker 0x00.
C14_ModeFollowsOption ==
    IsProcess =>
        /\ Len(prog_call.sendto) = 1
        /\ prog_call.sendto[1].packet
              = IF argv.binary_protocol
                THEN <<1>> \o serialize_single_landmarks(prog_call.frame)
                ELSE <<0>> \o Encode(serialize_landmarks_json(prog_call.frame,
                                                             prog_call.all_landmarks))

--------------------------------------------------------------------------
(* Failing sends, checked under SpecSending.                               *)

\* The frames a packet carries: the payload after a single-frame marker,
\* or the length-prefixed frames of a batch.
FramesOf(packet) ==
    IF packet[1] \in {0, 1}
    THEN {SubSeq(packet, 2, Len(packet))}
    ELSE LET frames == SplitBatch(packet) IN { frames[j] : j \in 1..Len(frames) }

\* No packet sent after a failed sendto() carries a frame of the failed one.
NeverResent(sent) ==
    \A i \in 1..Len(sent), j \in 1..Len(sent) :
        (i < j /\ ~sent[i].ok) => FramesOf(sent[i].packet) \cap FramesOf(sent[j].packet) = {}

\* The call on the sender, or the loop iteration, made a sendto() that failed.
SenderSendFailed == sender_call.sendto # <<>> /\ ~sender_call.sendto[1].ok
LoopSendFailed == IsProcess /\ ~prog_call.sendto[1].ok

\* C12: a failed sendto() is made once and not repeated; the call returns
\* with nothing pending and the sender otherwise as it would be after a
\* successful send; the loop goes on to record the frame and stays in the
\* loop; and no later packet of either carries a frame of a failed one.
C12_FailedSendDropsFrames ==
    /\ SenderSendFailed =>
          /\ Len(sender_call.sendto) = 1
          /\ sender = [sender_pre EXCEPT
                          !.batch = <<>>, !.frames_in_batch = 0,
                          !.sock = IF sender_call.op = "close" THEN "closed" ELSE @]
    /\ LoopSendFailed =>
          /\ Len(prog_call.sendto) = 1
          /\ prog.pc = "loop"
          /\ prog.latency_tracker.frame_count = prog_call.frame.frame_count + 1
    /\ NeverResent(net)
    /\ NeverResent(prog_net)

\* C12 witness: on a sender of batch size 2 the second send() failed to
\* send its batch, and the next two were then sent as a batch of their own.
C12_Witness ==
    /\ IsSend /\ sender_pre.batch_size = 2 /\ Len(udp_log) = 4
    /\ Len(net) = 2 /\ ~net[1].ok /\ net[2].ok
    /\ Cardinality(FramesOf(net[1].packet)) = 2
    /\ FramesOf(net[2].packet) = {Payload(3), Payload(4)}
    /\ sender.batch = <<>>

--------------------------------------------------------------------------
(* Properties of serialize_single_landmarks, checked under SpecSerialize.  *)

\* The returned bytes, and the single-frame packet made of them.
SerBytes == Get(ser_out)
SerPacket == <<1>> \o SerBytes

\* The byte at offset k of a byte string (offsets count from 0), and the
\* n bytes from offset k on.
At(bytes, k) == bytes[k + 1]
Field(bytes, k, n) == SubSeq(bytes, k + 1, k + n)

\* C13: the payload for n landmarks is 35 + 17 n bytes: timestamp (8),
\* capture, inference, filter, serialization times (4 each), frame count
\* (4), fps (4), skip_frames (1), the count n big-endian (2), and per
\* landmark in input order its id (1) and x, y, z, v (4 each); after the
\* marker byte the count is at offset 34 and the first landmark at 36.
C13_BinaryLayout ==
    ser_out # None =>
        LET n == Len(ser_in.landmarks)
        IN  /\ Len(SerBytes) = 35 + 17 * n
            /\ Field(SerBytes, 0, 8) = pack_d(ser_in.timestamp)
            /\ Field(SerBytes, 8, 4) = pack_f(ser_in.capture_ms)
            /\ Field(SerBytes, 12, 4) = pack_f(ser_in.inference_ms)
            /\ Field(SerBytes, 16, 4) = pack_f(ser_in.filter_ms)
            /\ Field(SerBytes, 20, 4) = pack_f(ser_in.serialization_ms)
            /\ Field(SerBytes, 24, 4) = BigEndian4(ser_in.frame_count)
            /\ Field(SerBytes, 28, 4) = pack_f(ser_in.processing_fps)
            /\ At(SerBytes, 32) = ser_in.skip_frames
            /\ At(SerBytes, 33) * 256 + At(SerBytes, 34) = n
            /\ At(SerPacket, 34) * 256 + At(SerPacket, 35) = n
            /\ \A i \in 1..n :
                  LET lm == ser_in.landmarks[i]
                      at == 36 + 17 * (i - 1)
                  IN  /\ At(SerPacket, at) = lm.id
                      /\ Field(SerPacket, at + 1, 4) = pack_f(lm.x)
                      /\ Field(SerPacket, at + 5, 4) = pack_f(lm.y)
                      /\ Field(SerPacket, at + 9, 4) = pack_f(lm.z)
                      /\ Field(SerPacket, at + 13, 4) = pack_f(lm.v)

\* C13 witness: three landmarks serialized to 86 bytes, the count 3 at
\* offset 34 of the packet and the ids at offsets 36, 53 and 70.
C13_Witness ==
    /\ ser_out # None /\ Len(ser_in.landmarks) = 3
    /\ Len(SerBytes) = 86
    /\ At(SerPacket, 35) = 3
    /\ ser_in.landmarks[1].id = 7 /\ At(SerPacket, 36) = 7
    /\ ser_in.landmarks[2].id = 32 /\ At(SerPacket, 53) = 32
    /\ ser_in.landmarks[3].id = 0 /\ At(SerPacket, 70) = 0
    /\ ser_in.frame_count = 70000 /\ Field(SerPacket, 25, 4) = <<0, 1, 17, 112>>

--------------------------------------------------------------------------
(* Properties of the filter presets, checked under SpecPresets.            *)

\* get_preset_params() raises ValueError for every name that is no preset
\* and returns the preset's three parameters for every name that is one.
PresetLookup ==
    preset_call.op = "get_preset_params" =>
        IF preset_call.name \in {"responsive", "balanced", "smooth"}
        THEN /\ preset_call.result.raised = ""
             /\ preset_call.result.value = FILTER_PRESETS[preset_call.name]
        ELSE preset_call.result.raised = "ValueError"

\* The command line names a preset that does not exist.
UnknownPresetGiven ==
    argv.filter_preset # None /\ Get(argv.filter_preset) \notin DOMAIN FILTER_PRESETS

\* Nothing has been captured, processed or sent.
NothingProcessed ==
    /\ prog_iters = 0 /\ prog_net = <<>>
    /\ prog.frame_counter = 0 /\ prog.latency_tracker.frame_count = 0

\* C18 as stated: the lookup is as above, and the program started with an
\* unknown preset name ends on that ValueError before any frame.
C18_AsStated ==
    /\ PresetLookup
    /\ UnknownPresetGiven =>
          /\ NothingProcessed
          /\ prog.pc \in {"import", "main", "exit"}
          /\ prog.pc = "exit" => prog.error = "ValueError"

\* C18, amended: the lookup is as above; in the program an unknown preset
\* name is refused by parse_args() when the module is imported, before
\* main() starts and before any frame, so that main() reaches the lookup
\* with a defined name only and no ValueError is ever raised there.
C18_UnknownPresetRefusedAtStart ==
    /\ PresetLookup
    /\ UnknownPresetGiven =>
          /\ NothingProcessed
          /\ prog.pc \in {"import", "exit"}
          /\ prog.pc = "exit" => prog.error = "argparse"
    /\ prog.error # "ValueError"
    /\ prog.args # None => Get(prog.args).filter_preset \in DOMAIN FILTER_PRESETS

\* C18 witness: the program started with --filter-preset fastest has ended
\* at its import with the parser's error and nothing processed.
C18_Witness ==
    /\ argv.filter_preset = Some("fastest")
    /\ prog_call.op = "import"
    /\ prog.pc = "exit" /\ prog.error = "argparse"
    /\ prog.args = None /\ prog.filter_bank = None
    /\ NothingProcessed

--------------------------------------------------------------------------
(* Properties of the resets of LandmarkFilterBank, checked under SpecBank. *)

IsResetLandmark == bank_call.op = "reset_landmark"
IsResetAll == bank_call.op = "reset_all"

\* The three axis filters fs hold no state and have the bank's parameters.
FreshFilters(fs, b) ==
    \A c \in 1..3 : fs[c] = NewFilter(b.min_cutoff, b.beta, b.d_cutoff)

\* Landmark j's filters and previous visibility are as before the call.
Untouched(j) ==
    /\ bank.filters[j] = bank_pre.filters[j]
    /\ bank.prev_visibility[j] = bank_pre.prev_visibility[j]

\* The tuning parameters and the size are as before the call.
SameParameters ==
    /\ bank.num_landmarks = bank_pre.num_landmarks
    /\ bank.min_cutoff = bank_pre.min_cutoff
    /\ bank.beta = bank_pre.beta
    /\ bank.d_cutoff = bank_pre.d_cutoff

\* C19: reset_landmark(id) with id in 0..N-1 clears the three filters of
\* that landmark and sets its previous visibility to 0.0, leaving every
\* other landmark as it was; with any other id it changes nothing.
C19_ResetLandmarkTouchesOnlyIts ==
    IsResetLandmark =>
        LET id == bank_call.landmark_id
        IN  /\ SameParameters
            /\ IF 0 <= id /\ id < bank_pre.num_landmarks
               THEN /\ \A c \in 1..3 : Stateless(bank.filters[id][c])
                    /\ FreshFilters(bank.filters[id], bank_pre)
                    /\ bank.prev_visibility[id] = 0
                    /\ \A j \in 0..(bank_pre.num_landmarks - 1) : j # id => Untouched(j)
               ELSE bank = bank_pre

\* C19 witness: landmark 0 and landmark 1 both held state and were visible;
\* reset_landmark(0) cleared landmark 0 and landmark 1 still holds its state.
C19_Witness ==
    /\ IsResetLandmark /\ bank_call.landmark_id = 0
    /\ HadState(bank_pre.filters[0]) /\ bank_pre.prev_visibility[0] >= VISIBILITY_THRESHOLD
    /\ HadState(bank_pre.filters[1])
    /\ ~HadState(bank.filters[0]) /\ bank.prev_visibility[0] = 0
    /\ HadState(bank.filters[1]) /\ bank.prev_visibility[1] >= VISIBILITY_THRESHOLD

\* A visible sample of landmark i, passed alone to the bank as it is now,
\* comes back with its raw coordinates.
NextSampleRaw(i) ==
    LET lm == [id |-> i, x |-> 700, y |-> 600, z |-> -200, v |-> 900]
        r == filter_landmarks(bank, <<lm>>, 16)
    IN  r.ret = Some(<<lm>>)

\* C20: after reset_all() the bank equals a bank newly constructed with the
\* same size and parameters: no filter holds state, every previous
\* visibility is 0.0, the parameters are unchanged, and the next visible
\* sample of each landmark passes through unsmoothed.
C20_ResetAllGivesNewBank ==
    IsResetAll =>
        /\ SameParameters
        /\ bank = NewBank(bank_pre.num_landmarks, bank_pre.min_cutoff,
                          bank_pre.beta, bank_pre.d_cutoff)
        /\ \A i \in 0..(bank.num_landmarks - 1) :
              /\ bank.prev_visibility[i] = 0
              /\ \A c \in 1..3 : Stateless(bank.filters[i][c])
              /\ NextSampleRaw(i)

\* C20 witness: reset_all() on a bank whose two landmarks both held state
\* and were visible.
C20_Witness ==
    /\ IsResetAll
    /\ \A i \in 0..(bank_pre.num_landmarks - 1) :
          /\ HadState(bank_pre.filters[i])
          /\ bank_pre.prev_visibility[i] >= VISIBILITY_THRESHOLD
          /\ ~HadState(bank.filters[i])
          /\ bank.prev_visibility[i] = 0

IsUpdateParams == bank_call.op = "update_params"

\* The value of a parameter after update_params: the one passed, or the
\* one the bank had.
Updated(passed, had) == IF passed = None THEN had ELSE passed[1]

\* C21: update_params replaces the parameters passed and keeps the others;
\* whatever is passed, afterwards the bank has N landmarks of three filters
\* without state that carry the current parameters and N previous
\* visibilities of 0.0.  The size of the bank is the same in every state.
C21_UpdateParamsRebuildsBank ==
    /\ bank.num_landmarks = BankSize
    /\ DOMAIN bank.filters = 0..(BankSize - 1)
    /\ DOMAIN bank.prev_visibility = 0..(BankSize - 1)
    /\ IsUpdateParams =>
          /\ bank.min_cutoff = Updated(bank_call.min_cutoff, bank_pre.min_cutoff)
          /\ bank.beta = Updated(bank_call.beta, bank_pre.beta)
          /\ bank.d_cutoff = Updated(bank_call.d_cutoff, bank_pre.d_cutoff)
          /\ \A i \in 0..(BankSize - 1) :
                /\ DOMAIN bank.filters[i] = 1..3
                /\ \A c \in 1..3 : Stateless(bank.filters[i][c])
                /\ FreshFilters(bank.filters[i], bank)
                /\ bank.prev_visibility[i] = 0

\* C21 witness: update_params() with no argument on a bank whose landmark 0
\* held state and was visible; the state is gone, the parameters stay.
C21_Witness ==
    /\ IsUpdateParams
    /\ bank_call.min_cutoff = None /\ bank_call.beta = None /\ bank_call.d_cutoff = None
    /\ HadState(bank_pre.filters[0])
    /\ bank_pre.prev_visibility[0] >= VISIBILITY_THRESHOLD
    /\ ~HadState(bank.filters[0])
    /\ bank.prev_visibility[0] = 0
    /\ SameParameters

--------------------------------------------------------------------------
(* Properties of FrameCapture and of the shutdown, checked under           *)
(* SpecCapture.                                                            *)

\* Where the main thread is inside FrameCapture.__init__, and inside the
\* loop of main().
InConstructor == main_thread.pc \in {"open", "wait", "check"}
InLoop == main_thread.pc \in {"poll", "get_frame", "copy", "body"}
Constructed == ~InConstructor /\ main_thread.pc # "failed"

\* C23: the construction of a FrameCapture ends, and ends in one of three
\* ways: the open error exactly when the device did not open, the first
\* frame error (another message) only after the whole timeout, or success,
\* and then a frame is in the slot.
C23_ConstructionOutcomes ==
    /\ [](main_thread.pc = "failed" =>
             \/ /\ main_thread.error = "Could not open camera"
                /\ ~frame_capture.isOpened
             \/ /\ main_thread.error = "Camera failed to capture first frame within timeout"
                /\ frame_capture.isOpened
                /\ main_thread.waited = FirstFrameTimeout)
    /\ [](Constructed =>
             /\ main_thread.error = ""
             /\ frame_capture.isOpened
             /\ frame_capture.ready
             /\ frame_capture.frame # None)
    /\ <>(~InConstructor)

\* C23 witness: the construction succeeded after waiting one tick for the
\* first frame, which is in the slot.
C23_Witness ==
    /\ main_thread.pc = "poll" /\ main_thread.iterations = 0
    /\ main_thread.waited = 1
    /\ frame_capture.frame # None
    /\ pixels[Get(frame_capture.frame)] = 1

\* C24: every frame get_frame returned is a buffer of its own that holds,
\* and goes on holding, the image stored last when get_frame had the lock
\* (None if nothing was stored); the lock is held by the capture thread
\* only to store and by the main thread only to copy, never during a read.
C24_LatestFrameCopied ==
    /\ \A k \in 1..Len(capture_log.got) :
          LET g == capture_log.got[k]
          IN  IF g.stores = 0 THEN g.frame = None
              ELSE /\ g.frame # None
                   /\ pixels[Get(g.frame)] = capture_log.stored[g.stores]
                   /\ g.frame # frame_capture.frame
                   /\ g.frame # capture_thread.frame
    /\ frame_capture.lock = "capture" <=> capture_thread.pc \in {"store", "ready"}
    /\ frame_capture.lock = "main" <=> main_thread.pc = "copy"

\* C24 witness: get_frame returned the first image; the capture loop then
\* stored two more without any being read; get_frame returned the third,
\* and the frame returned first still holds the first image.
C24_Witness ==
    /\ Len(capture_log.got) = 2
    /\ capture_log.got[1].stores = 1
    /\ capture_log.got[2].stores = 3
    /\ pixels[Get(capture_log.got[1].frame)] = 1
    /\ pixels[Get(capture_log.got[2].frame)] = 3

\* C22: with the flag cleared, the poll of the loop leads to the cleanup
\* and no iteration is begun; the cleanup tells the capture thread to stop,
\* waits for it no longer than the join timeout, then releases the device
\* and closes the socket; a loop whose flag is cleared ends stopped.
C22_CooperativeShutdown ==
    /\ [][(main_thread.pc = "poll" /\ ~main_thread.running) =>
             /\ main_thread'.pc \in {"poll", "cleanup"}
             /\ main_thread'.iterations = main_thread.iterations]_vars
    /\ [][~main_thread.running => ~main_thread'.running]_vars
    /\ [](main_thread.pc \in {"join", "release", "close", "stopped"} =>
             /\ ~frame_capture.running
             /\ main_thread.waited <= JoinTimeout)
    /\ [](main_thread.pc \in {"close", "stopped"} => frame_capture.released)
    /\ [](main_thread.pc = "stopped" => main_thread.sock = "closed")
    /\ (InLoop /\ ~main_thread.running) ~> (main_thread.pc = "stopped")

\* C22 witness: the program stopped, device released and socket closed,
\* after the whole join timeout, while the capture thread is still in a
\* read.
C22_Witness ==
    /\ main_thread.pc = "stopped"
    /\ main_thread.waited = JoinTimeout
    /\ capture_thread.pc = "read"
    /\ frame_capture.released
    /\ main_thread.sock = "closed"

--------------------------------------------------------------------------
(* Properties of crop_frame and adjust_landmarks, checked under SpecCrop.  *)

IsCropFrame == crop_call.op = "crop_frame"
IsAdjust == crop_call.op = "adjust_landmarks"

\* C25: crop_frame returns the frame itself, scale (1.0, 1.0) and offset
\* (0, 0) when no ROI is set; with the ROI (x, y, w, h) it returns the rows
\* y .. y+h-1 and columns x .. x+w-1 of the frame, offset (x, y) and scale
\* (crop width / frame width, crop height / frame height).
C25_CropFrameResult ==
    IsCropFrame =>
        LET frame == crop_call.frame
            ret == crop_call.ret
        IN  IF tracker.roi = None
            THEN ret = [cropped |-> frame, scale |-> <<One, One>>, offset |-> <<0, 0>>]
            ELSE LET roi == Get(tracker.roi)
                 IN  /\ ret.cropped = [shape |-> <<roi[4], roi[3]>>,
                                       top |-> roi[2], left |-> roi[1]]
                     /\ ret.offset = <<roi[1], roi[2]>>
                     /\ ret.scale = <<IntQuot(ret.cropped.shape[2], frame.shape[2]),
                                      IntQuot(ret.cropped.shape[1], frame.shape[1])>>

\* Equal but for what float rounding adds on the way (2 / Scale).
Near(a, b) == Abs(a - b) <= 2

\* C26: a landmark given in coordinates normalized to the cropped frame
\* comes back from adjust_landmarks, with the scale and offset of
\* crop_frame, in coordinates normalized to the whole frame; with scale
\* (1.0, 1.0) and offset (0, 0) x and y come back as they were.
C26_CropRoundTrip ==
    IsAdjust =>
        LET whole == Normalized(crop_call.point, crop_call.frame)
            out == crop_call.ret[1]
        IN  /\ Near(out.x, whole.x) /\ Near(out.y, whole.y)
            /\ (crop_call.crop.scale = <<One, One>> /\ crop_call.crop.offset = <<0, 0>>)
                  => (out.x = crop_call.landmarks[1].x /\ out.y = crop_call.landmarks[1].y)

--------------------------------------------------------------------------
(* Properties of a OneEuroFilter fed a constant, checked under             *)
(* SpecConstant: every filter() call there repeats the sample of the call  *)
(* before it, if there was one since the last reset.                       *)

IsConstantCall == oef_call.op = "filter"

ShortestDt ==
    CHOOSE d \in {filter_dt([t_prev |-> Some(a)], b) : a, b \in Timestamps} :
        \A a, b \in Timestamps : d <= filter_dt([t_prev |-> Some(a)], b)

--------------------------------------------------------------------------
(* Properties of the filtered test signal, checked under SpecNoise.        *)

EnoughSamples == Len(noise_run.raw_values) >= 100

FilteredVariesLess ==
    Variance(noise_run.filtered_values) < Variance(noise_run.raw_values)

\* C28 as stated: after at least 100 samples of a sine wave with noise the
\* variance of the filtered values is less than that of the raw values.
C28_AsStated == EnoughSamples => FilteredVariesLess

\* C28: for the test's filter (min_cutoff 1.0, beta 0.005) and the test's
\* signal, whatever its start time, after at least 100 samples the variance
\* of the filtered values is less than that of the raw values.
C28_TestSignalVariesLess ==
    (EnoughSamples /\ noise_run.signal \in TestSignalNames) => FilteredVariesLess

\* C28 witness: the hundred samples of the test, started at 0, are
\* filtered; the filtered variance is below nine tenths of the raw one.
C28_Witness ==
    /\ noise_run.signal = "test at 0"
    /\ Len(noise_run.raw_values) = 100
    /\ 10 * Variance(noise_run.filtered_values) < 9 * Variance(noise_run.raw_values)

--------------------------------------------------------------------------
(* Further properties of PredictiveROITracker.update, checked under        *)
(* SpecRoi.                                                                *)

IsTrackedUpdate == IsUpdate /\ tracker_call.landmarks # <<>>

\* Where a tracked update is to centre the ROI: the centroid of the
\* landmarks, moved by the mean of the velocities the tracker now holds if
\* they are two or more.
ExpectedCentre ==
    LET centre == Centroid(tracker_call.landmarks, original_shape)
        v == tracker.velocities
    IN  IF Len(v) >= 2
        THEN <<centre[1] + Mean(Column(v, 1)), centre[2] + Mean(Column(v, 2))>>
        ELSE centre

\* C29: a tracked update puts the ROI around the centroid plus the mean of
\* the recorded velocities if two or more are recorded, and around the
\* centroid otherwise: its corner is the centre less half the size, cut to
\* a whole pixel and kept from falling below 0.  The first tracked update
\* after construction or after giving up records no velocity and centres
\* the ROI on the centroid.
C29_TrackedRoiCentre ==
    IsTrackedUpdate =>
        LET size == RoiSize(tracker, original_shape)
            roi == Get(tracker.roi)
        IN  /\ tracker_call.predicted = Some(ExpectedCentre)
            /\ roi[1] = Max(0, PyInt(ExpectedCentre[1] - RoundDiv(Float(size[1]), 2)))
            /\ roi[2] = Max(0, PyInt(ExpectedCentre[2] - RoundDiv(Float(size[2]), 2)))
            /\ (roi[1] > 0 /\ roi[3] = size[1]) =>
                  Abs(Float(roi[1]) + RoundDiv(Float(size[1]), 2) - ExpectedCentre[1]) < One
            /\ (roi[2] > 0 /\ roi[4] = size[2]) =>
                  Abs(Float(roi[2]) + RoundDiv(Float(size[2]), 2) - ExpectedCentre[2]) < One
            /\ tracker_pre.positions = <<>> =>
                  /\ tracker.velocities = <<>>
                  /\ ExpectedCentre = Centroid(tracker_call.landmarks, original_shape)

\* C29 witness: the update that records the second velocity moves the
\* centre of the ROI away from the centroid.
C29_Witness ==
    /\ IsTrackedUpdate
    /\ Len(tracker_pre.velocities) = 1
    /\ Len(tracker.velocities) = 2
    /\ tracker_call.predicted # tracker_call.center
    /\ tracker_call.predicted = Some(ExpectedCentre)

\* C30: after every update the lost-frame counter is the number of empty
\* updates in a row up to this one: 0 after a tracked update, one more
\* after every empty update, given up or not.
C30_LostFramesCountsEmptyUpdates ==
    /\ tracker.lost_frames = TrailingEmpty(tracker_log)
    /\ IsTrackedUpdate => tracker.lost_frames = 0
    /\ IsEmptyUpdate => tracker.lost_frames = tracker_pre.lost_frames + 1

\* C30 witness: two empty updates after the tracker gave up, the counter
\* two above max_lost + 1.
C30_Witness ==
    /\ IsEmptyUpdate
    /\ tracker_call.branch = "give_up"
    /\ tracker_pre.positions = <<>>
    /\ tracker.lost_frames = tracker.max_lost + 3

--------------------------------------------------------------------------
(* The motion history of PredictiveROITracker, checked under SpecRoi.      *)

\* The newest n entries of a sequence, in order.
Newest(q, n) == IF Len(q) <= n THEN q ELSE SubSeq(q, Len(q) - n + 1, Len(q))

HistoriesBounded ==
    /\ Len(tracker.positions) <= tracker.velocity_window
    /\ Len(tracker.velocities) <= tracker.velocity_window
    /\ Len(tracker.velocities) <= Len(tracker.positions)

\* A tracked update pushes the centroid, and the step from the last centroid
\* if there is one, and the oldest entries leave a full history.
HistoryPushed ==
    IsTrackedUpdate =>
        LET centre == Centroid(tracker_call.landmarks, original_shape)
            had == tracker_pre.positions
        IN  /\ tracker.positions = Newest(Append(had, centre), tracker.velocity_window)
            /\ tracker.velocities =
                  IF had = <<>> THEN tracker_pre.velocities
                  ELSE Newest(Append(tracker_pre.velocities,
                                     <<centre[1] - had[Len(had)][1],
                                       centre[2] - had[Len(had)][2]>>),
                              tracker.velocity_window)

HistoriesEmptiedTogether ==
    (IsEmptyUpdate /\ tracker_call.branch = "give_up") =>
        tracker.positions = <<>> /\ tracker.velocities = <<>>

\* C31 as stated: the histories are bounded by velocity_window with the
\* oldest entry evicted first, the velocity history is never the longer
\* one, every empty update that leaves the lost counter <= max_lost leaves
\* both histories unchanged, and a full reset empties both.
C31_AsStated ==
    /\ HistoriesBounded
    /\ HistoryPushed
    /\ (IsEmptyUpdate /\ tracker.lost_frames <= tracker.max_lost) => HistoryKept
    /\ HistoriesEmptiedTogether

\* C31, amended: the histories are bounded by velocity_window with the
\* oldest entry evicted first, the velocity history is never the longer
\* one, an empty update that leaves the lost counter <= max_lost and finds
\* a recorded velocity leaves both histories unchanged, and every other
\* empty update is a full reset that empties both.
C31_MotionHistoryBounded ==
    /\ HistoriesBounded
    /\ HistoryPushed
    /\ IsEmptyUpdate =>
          IF tracker.lost_frames <= tracker.max_lost /\ tracker_pre.velocities # <<>>
          THEN HistoryKept /\ tracker_call.branch = "predict"
          ELSE /\ tracker_call.branch = "give_up"
               /\ tracker.positions = <<>> /\ tracker.velocities = <<>>

\* C31 witness: a tracked update finds both histories full and pushes the
\* oldest position and the oldest velocity out.
C31_Witness ==
    /\ IsTrackedUpdate
    /\ Len(tracker_pre.positions) = tracker.velocity_window
    /\ Len(tracker_pre.velocities) = tracker.velocity_window
    /\ tracker.positions # tracker_pre.positions
    /\ tracker.positions = Append(Tail(tracker_pre.positions),
                                  Centroid(tracker_call.landmarks, original_shape))
    /\ Tail(tracker_pre.velocities) = SubSeq(tracker.velocities, 1,
                                             tracker.velocity_window - 1)
    /\ Head(tracker_pre.velocities) # Head(tracker.velocities)

--------------------------------------------------------------------------
(* Visibility, the returned list and the state of the axis filters of      *)
(* LandmarkFilterBank, checked under SpecBank.                             *)

\* The landmarks of the last call that carry the id.
Occurrences(id) ==
    { i \in 1..Len(bank_call.landmarks) : bank_call.landmarks[i].id = id }

\* The k-th in-range landmark of the last call.
InRangeInput == SelectSeq(bank_call.landmarks, LAMBDA lm : InRange(lm.id))

\* C32: filter_landmarks emits every in-range landmark with its raw
\* visibility, leaves that raw visibility (of the last landmark carrying
\* the id) in prev_visibility for the id, visible or not, and leaves
\* prev_visibility unchanged for the ids that do not occur in the input.
C32_VisibilityPassedRaw ==
    IsFilterCall =>
        /\ bank_call.ret # None
        /\ \A i \in ReturnedInRange : Emitted(i).v = RawVisibility(i)
        /\ \A id \in 0..(bank_pre.num_landmarks - 1) :
              bank.prev_visibility[id] =
                  IF Occurrences(id) = {} THEN bank_pre.prev_visibility[id]
                  ELSE RawVisibility(SetMax(Occurrences(id)))

\* C33: filter_landmarks returns one entry for every input landmark whose
\* id is in range, in the order of the input and with the same id, and no
\* other entry.
C33_OneEntryPerInRangeLandmark ==
    IsFilterCall =>
        /\ bank_call.ret # None
        /\ Len(Get(bank_call.ret)) = Len(InRangeInput)
        /\ \A k \in 1..Len(InRangeInput) : Get(bank_call.ret)[k].id = InRangeInput[k].id

Initialised(f) == f.x_prev # None /\ f.dx_prev # None /\ f.t_prev # None
Uninitialised(f) == f.x_prev = None /\ f.dx_prev = None /\ f.t_prev = None

\* C34: whatever calls were made on the bank, the three axis filters of
\* every landmark id are all initialised or all uninitialised, they are
\* initialised exactly when the previous visibility of the id is at least
\* 0.5, and when initialised they hold the same previous timestamp.
C34_AxisFiltersInStep ==
    \A id \in 0..(bank.num_landmarks - 1) :
        LET fs == bank.filters[id]
        IN  /\ (\A c \in 1..3 : Initialised(fs[c])) \/ (\A c \in 1..3 : Uninitialised(fs[c]))
            /\ Initialised(fs[1]) <=> bank.prev_visibility[id] >= VISIBILITY_THRESHOLD
            /\ Initialised(fs[1]) =>
                  fs[1].t_prev = fs[2].t_prev /\ fs[2].t_prev = fs[3].t_prev

\* C34 witness: after a call that filtered a visible landmark for the
\* second time, one id holds initialised filters with the timestamp of
\* that call and another id holds uninitialised ones.
C34_Witness ==
    /\ IsFilterCall /\ bank_call.ret # None
    /\ \E id \in 0..(bank.num_landmarks - 1) :
          /\ Initialised(bank_pre.filters[id][1])
          /\ \A c \in 1..3 : /\ Initialised(bank.filters[id][c])
                               /\ bank.filters[id][c].t_prev = Some(bank_call.timestamp)
          /\ bank.filters[id][1].t_prev # bank_pre.filters[id][1].t_prev
          /\ bank.prev_visibility[id] >= VISIBILITY_THRESHOLD
    /\ \E id \in 0..(bank.num_landmarks - 1) :
          /\ \A c \in 1..3 : Uninitialised(bank.filters[id][c])
          /\ bank.prev_visibility[id] < VISIBILITY_THRESHOLD

--------------------------------------------------------------------------
(* The pending buffer and the markers of UDPSender, checked under SpecUdp. *)

\* C35: between calls frames_in_batch is the number of pending frames;
\* after a send() on a sender of batch size >= 1 fewer than batch_size
\* frames are pending; flush() with nothing pending makes no sendto() and
\* changes nothing; after flush() and after close() nothing is pending.
C35_PendingBuffer ==
    /\ sender.frames_in_batch = Len(sender.batch)
    /\ (IsSend /\ sender.batch_size >= 1) => Len(sender.batch) < sender.batch_size
    /\ (sender_call.op = "flush" /\ Pending = <<>>) =>
          sender_call.sendto = <<>> /\ sender = sender_pre
    /\ IsFlush => sender.batch = <<>> /\ sender.frames_in_batch = 0

\* C35 witness: after a send() left two frames pending on a sender of batch
\* size 3, flush() sent them and a second flush() found nothing to send.
C35_Witness ==
    /\ sender_call.op = "flush" /\ sender.batch_size = 3
    /\ Pending = <<>> /\ sender_call.sendto = <<>>
    /\ Len(udp_log) = 2 /\ Len(net) = 1
    /\ Cardinality(FramesOf(net[1].packet)) = 2
    /\ sender = sender_pre

\* C36: the marker of every packet handed to sendto() matches the encoding
\* of every frame in it: 0x01 or 0x02 only with binary frames, 0x00 or 0x03
\* only with JSON frames.
C36_MarkerMatchesEncoding ==
    \A k \in 1..Len(net), j \in 1..Len(udp_log) :
        Payload(j) \in FramesOf(net[k].packet) =>
            (udp_log[j].binary <=> net[k].packet[1] \in {1, 2})

--------------------------------------------------------------------------
(* The order of delivery of UDPSender, checked under SpecUdpDelivery.      *)

\* The frames of a packet in the order a receiver reads them.
FrameList(packet) ==
    IF packet[1] \in {0, 1} THEN <<SubSeq(packet, 2, Len(packet))>> ELSE SplitBatch(packet)

\* The frames of all the packets handed to sendto(), in transmission order.
Transmitted == Concat([k \in 1..Len(net) |-> FrameList(net[k].packet)])

\* The frame data of the frames passed to send(), in the order of the calls.
Passed == [j \in 1..Len(udp_log) |-> Payload(j)]

NoNetworkFailure == \A k \in 1..Len(net) : net[k].ok

\* close() hands the frames that were pending to sendto() and then closes
\* the socket.
ClosedAfterSending ==
    /\ sender.sock = "closed" /\ sender.batch = <<>>
    /\ IF Pending = <<>> THEN sender_call.sendto = <<>>
       ELSE /\ Len(sender_call.sendto) = 1
            /\ FrameList(sender_call.sendto[1].packet) = Pending

\* C37 as stated: after send() calls followed by close(), with no network
\* failure, the frames of the packets read in transmission order are
\* exactly the frames passed to send(), each once and in the order of the
\* calls, and close() transmitted the pending frames before it closed the
\* socket, whatever the batch size.
C37_AsStated ==
    (sender_call.op = "close" /\ NoNetworkFailure) =>
        Transmitted = Passed /\ ClosedAfterSending

\* C37, amended: that holds for batch sizes up to 255, the values the
\* count byte takes; a sender of a larger batch size transmits nothing
\* when its batch is full and drops the frames.
C37_DeliveredInOrder ==
    (sender_call.op = "close" /\ NoNetworkFailure) =>
        IF sender.batch_size <= MaxUByte
        THEN Transmitted = Passed /\ ClosedAfterSending
        ELSE /\ Len(udp_log) >= sender.batch_size => Transmitted # Passed
             /\ sender.sock = "closed" /\ sender.batch = <<>>

\* C37 witness: four frames were sent on a sender of batch size 3; the
\* first three went out as a batch and close() transmitted the fourth.
C37_Witness ==
    /\ sender_call.op = "close" /\ NoNetworkFailure
    /\ sender.batch_size = 3 /\ Len(udp_log) = 4
    /\ Len(net) = 2 /\ Len(FrameList(net[1].packet)) = 3
    /\ sender_call.sendto = <<net[2]>>
    /\ FrameList(net[2].packet) = <<Payload(4)>>
    /\ Transmitted = Passed
    /\ sender.sock = "closed"

--------------------------------------------------------------------------
(* A failed start of FrameCapture, checked under SpecCapture.              *)

TimedOut ==
    /\ main_thread.pc = "failed"
    /\ main_thread.error = "Camera failed to capture first frame within timeout"

\* C38: when __init__ has raised the first-frame timeout, the capture
\* thread has been told to stop (_running is False) and the camera has been
\* released, and the thread is not reading the device nor about to write
\* the shared slot.
C38_FailedStartLeavesNothingRunning ==
    TimedOut =>
        /\ ~frame_capture.running
        /\ frame_capture.released
        /\ capture_thread.pc \notin {"read", "acquire", "store", "ready"}

--------------------------------------------------------------------------
(* The JSON packets of the processing loop, checked under SpecProgram.     *)

\* A JSON text that is consistent in itself for the frame sent and the
\* subjects detected: num_poses is their number, poses holds one entry per
\* subject under its detection index, and the entry of subject 0 carries
\* the landmarks of the top-level array.
ConsistentJson ==
    LET n == Len(prog_call.all_landmarks)
    IN  JsonHead(prog_call.frame)
            \o ", \"num_poses\": " \o JsonInt(n)
            \o ", \"poses\": ["
            \o JsonJoin([i \in 1..n |->
                            JsonPose(i - 1, IF i = 1 THEN prog_call.frame.landmarks
                                            ELSE prog_call.all_landmarks[i][2])])
            \o "]}"

\* C39: every JSON packet the loop sends is consistent in itself: num_poses
\* is the length of poses, poses has one entry per detected subject with
\* pose_id its detection index, and the landmarks of pose 0 are those of
\* the top-level landmarks array, with the jitter filter enabled or not.
C39_JsonPacketSelfConsistent ==
    (IsProcess /\ prog_call.sendto[1].packet[1] = 0) =>
        prog_call.sendto[1].packet = <<0>> \o Encode(ConsistentJson)

==========================================================================
